---- MODULE Spec2Model ----
(***************************************************************************)
(* The client call surface of src/node/src/client.js: the four request     *)
(* drivers (unary, client-streaming, server-streaming, bidi), the batches  *)
(* they submit on a call, and the events they hand to the application.     *)
(* One behaviour follows one call from its creation to its end.            *)
(***************************************************************************)
EXTENDS Integers, Sequences, FiniteSets, TLC

\* ------------------------------------------------------------------ bounds
MaxMsgs == 2          \* messages the server sends on one call
MaxWrites == 2        \* application writes on one call
MaxCancels == 1       \* application cancel() calls on one call
HighWaterMark == 2    \* capacity of the readable buffer before push() returns false

VARIABLES
  shape,        \* "none" before the call is made, then the RPC shape
  submitted,    \* the batches the request function and the readable side
                \* handed to call.startBatch, in submission order
  pending,      \* indices of those the transport has not completed
  cq,           \* completions of those whose callback has not run yet (FIFO)
  sent,         \* the batches the writable side handed to call.startBatch
  sendPending,  \* indices of those the transport has not completed
  sendCq,       \* completions of those whose callback has not run yet (FIFO)
  finalStatus,  \* the call's final status once the transport has it
  srvInitMd,    \* the server's initial metadata has arrived
  wire,         \* received messages no RECV_MESSAGE has taken yet
  srvSent,      \* number of messages the server has sent
  events,       \* the events and callback invocations the application has observed
  cancels,      \* number of cancel() calls the application has made
  rbuf,         \* stream.Readable's buffer
  finished,     \* ClientReadableStream.finished
  reading,      \* ClientReadableStream.reading
  nodeReading,  \* stream.Readable's state.reading
  rEnded,       \* push(null) has been called
  endEmitted,   \* 'end' has been emitted
  started,      \* the consumer reads (flowing, or calling read())
  wq,           \* stream.Writable's buffered chunks
  wWriting,     \* a _write is waiting for its callback
  wEnding,      \* end() has been called
  wFinished,    \* 'finish' has been emitted
  written,      \* number of application write() calls
  ctor,         \* client construction: the method map, the constructor, the client
  creds,        \* credentials: the credentials at hand and the last composition
  ready,        \* waitForClientReady: the channel's state, the watch, the callbacks
  svc,          \* the test service: the call being handled and what it has sent
  chan          \* the native Channel: its core channels and the calls into the core

batchVars == <<submitted, pending, cq, sent, sendPending, sendCq>>
recvBatchVars == <<submitted, pending, cq>>
sendBatchVars == <<sent, sendPending, sendCq>>
transportVars == <<finalStatus, srvInitMd, wire, srvSent>>
readVars == <<rbuf, finished, reading, nodeReading, rEnded, endEmitted, started>>
writeVars == <<wq, wWriting, wEnding, wFinished, written>>
callVars == <<shape, submitted, pending, cq, sent, sendPending, sendCq, finalStatus, srvInitMd, wire, srvSent,
          events, cancels, rbuf, finished, reading, nodeReading, rEnded, endEmitted,
          started, wq, wWriting, wEnding, wFinished, written>>
auxVars == <<ctor, creds, ready, svc, chan>>
vars == <<callVars, auxVars>>

\* ------------------------------------------------------------- vocabulary
SEND_INITIAL_METADATA == "SEND_INITIAL_METADATA"
SEND_MESSAGE == "SEND_MESSAGE"
SEND_CLOSE_FROM_CLIENT == "SEND_CLOSE_FROM_CLIENT"
RECV_INITIAL_METADATA == "RECV_INITIAL_METADATA"
RECV_MESSAGE == "RECV_MESSAGE"
RECV_STATUS_ON_CLIENT == "RECV_STATUS_ON_CLIENT"

OK == "OK"
CANCELLED == "CANCELLED"
DEADLINE_EXCEEDED == "DEADLINE_EXCEEDED"
INTERNAL == "INTERNAL"
UNKNOWN == "UNKNOWN"

ParseFailure == "Failed to parse server response"

NoStatus == [code |-> "none", details |-> "none", metadata |-> "none"]
NullMsg == [id |-> 0, ok |-> TRUE]

StreamingResponse == {"server_stream", "bidi"}
StreamingRequest == {"client_stream", "bidi"}
SingleResponse == {"unary", "client_stream"}

\* An entry of the application's observation log.
Ev(type, code, details, metadata, value) ==
  [type |-> type, code |-> code, details |-> details, metadata |-> metadata,
   value |-> value]

\* Metadata._fromCoreRepresentation: the Metadata object built from the
\* transport's representation of a header list.
FromCore(repr) ==
  CASE repr = "core_trailer" -> "md_trailer"
    [] repr = "core_initial" -> "md_initial"
    [] repr = "core_empty" -> "md_empty"
    [] OTHER -> "md_invalid"

\* deserialize(buffer): the value a well-formed message decodes to
Deserialize(msg) == msg.id

\* The error object the binding passes to a batch callback when the batch failed
BatchError == Ev("callback", "undefined", "batch failed", "undefined", 0)

Batch(ops, kind, arg) == [ops |-> ops, kind |-> kind, arg |-> arg]

HeadKind == IF cq = <<>> THEN "none" ELSE submitted[Head(cq).id].kind

Count(type) == Cardinality({i \in DOMAIN events : events[i].type = type})

\* No client is being constructed, no credential composed, no channel
\* waited for, no call being served.
NoCtor == [pc |-> "idle"]
NoCreds == [pc |-> "idle"]
NoReady == [pc |-> "idle"]
NoSvc == [pc |-> "idle"]
NoChan == [pc |-> "idle"]

AuxIdle ==
  /\ ctor = NoCtor
  /\ creds = NoCreds
  /\ ready = NoReady
  /\ svc = NoSvc
  /\ chan = NoChan

\* No call has been made.
CallIdle ==
  /\ shape = "none"
  /\ submitted = <<>>
  /\ pending = {}
  /\ cq = <<>>
  /\ sent = <<>>
  /\ sendPending = {}
  /\ sendCq = <<>>
  /\ finalStatus = NoStatus
  /\ srvInitMd = FALSE
  /\ wire = <<>>
  /\ srvSent = 0
  /\ events = <<>>
  /\ cancels = 0
  /\ rbuf = <<>>
  /\ finished = FALSE
  /\ reading = FALSE
  /\ nodeReading = FALSE
  /\ rEnded = FALSE
  /\ endEmitted = FALSE
  /\ started = FALSE
  /\ wq = 0
  /\ wWriting = FALSE
  /\ wEnding = FALSE
  /\ wFinished = FALSE
  /\ written = 0

Init == CallIdle /\ AuxIdle

\* ------------------------------------------------------------ the drivers
UnaryBatch_NoClose ==
  Batch({SEND_INITIAL_METADATA, SEND_MESSAGE, RECV_INITIAL_METADATA,
         RECV_MESSAGE, RECV_STATUS_ON_CLIENT}, "unary", 0)

UnaryBatch ==
  Batch({SEND_INITIAL_METADATA, SEND_MESSAGE, SEND_CLOSE_FROM_CLIENT,
         RECV_INITIAL_METADATA, RECV_MESSAGE, RECV_STATUS_ON_CLIENT}, "unary", 0)

makeUnaryRequest ==
  /\ shape = "none"
  /\ shape' = "unary"
  /\ submitted' = <<UnaryBatch>>
  /\ pending' = {1}
  /\ UNCHANGED <<cq, sendBatchVars, events, cancels>>
  /\ UNCHANGED <<transportVars, readVars, writeVars>>
  /\ UNCHANGED auxVars

ClientStreamOpenBatches_StatusWithMetadata ==
  << Batch({SEND_INITIAL_METADATA}, "metadata", 0),
     Batch({RECV_INITIAL_METADATA, RECV_MESSAGE, RECV_STATUS_ON_CLIENT},
           "client", 0) >>

ClientStreamOpenBatches ==
  << Batch({SEND_INITIAL_METADATA, RECV_INITIAL_METADATA}, "metadata", 0),
     Batch({RECV_MESSAGE, RECV_STATUS_ON_CLIENT}, "client", 0) >>

makeClientStreamRequest ==
  /\ shape = "none"
  /\ shape' = "client_stream"
  /\ submitted' = ClientStreamOpenBatches
  /\ pending' = {1, 2}
  /\ UNCHANGED <<cq, sendBatchVars, events, cancels>>
  /\ UNCHANGED <<transportVars, readVars, writeVars>>
  /\ UNCHANGED auxVars

ServerStreamOpenBatches_RecvAtOpen ==
  << Batch({SEND_INITIAL_METADATA, RECV_INITIAL_METADATA, SEND_MESSAGE,
            SEND_CLOSE_FROM_CLIENT, RECV_MESSAGE}, "metadata", 0),
     Batch({RECV_STATUS_ON_CLIENT}, "status", 0) >>

ServerStreamOpenBatches ==
  << Batch({SEND_INITIAL_METADATA, RECV_INITIAL_METADATA, SEND_MESSAGE,
            SEND_CLOSE_FROM_CLIENT}, "metadata", 0),
     Batch({RECV_STATUS_ON_CLIENT}, "status", 0) >>

makeServerStreamRequest ==
  /\ shape = "none"
  /\ shape' = "server_stream"
  /\ submitted' = ServerStreamOpenBatches
  /\ pending' = {1, 2}
  /\ UNCHANGED <<cq, sendBatchVars, events, cancels>>
  /\ UNCHANGED <<transportVars, readVars, writeVars>>
  /\ UNCHANGED auxVars

BidiOpenBatches_StatusAtOpen ==
  << Batch({SEND_INITIAL_METADATA, RECV_INITIAL_METADATA,
            RECV_STATUS_ON_CLIENT}, "metadata", 0),
     Batch({RECV_STATUS_ON_CLIENT}, "status", 0) >>

BidiOpenBatches_CloseAtOpen ==
  << Batch({SEND_INITIAL_METADATA, RECV_INITIAL_METADATA,
            SEND_CLOSE_FROM_CLIENT}, "metadata", 0),
     Batch({RECV_STATUS_ON_CLIENT}, "status", 0) >>

BidiOpenBatches ==
  << Batch({SEND_INITIAL_METADATA, RECV_INITIAL_METADATA}, "metadata", 0),
     Batch({RECV_STATUS_ON_CLIENT}, "status", 0) >>

makeBidiStreamRequest ==
  /\ shape = "none"
  /\ shape' = "bidi"
  /\ submitted' = BidiOpenBatches
  /\ pending' = {1, 2}
  /\ UNCHANGED <<cq, sendBatchVars, events, cancels>>
  /\ UNCHANGED <<transportVars, readVars, writeVars>>
  /\ UNCHANGED auxVars

\* -------------------------------------------------------------- transport
\* grpc.Call as the drivers see it: startBatch queues a batch, the core
\* completes it once each of its operations can complete, and the completion
\* is posted to the JS thread in FIFO order.
Submit(batch) ==
  /\ submitted' = Append(submitted, batch)
  /\ pending' = pending \cup {Len(submitted) + 1}

SubmitSend(batch) ==
  /\ sent' = Append(sent, batch)
  /\ sendPending' = sendPending \cup {Len(sent) + 1}

\* call.cancelWithStatus(code, details): decides the final status unless the
\* call already has one, and discards what was received but not yet read.
StatusAfterCancel(code, details) ==
  IF finalStatus = NoStatus
    THEN [code |-> code, details |-> details, metadata |-> "core_empty"]
    ELSE finalStatus

WireAfterCancel == IF finalStatus = NoStatus THEN <<>> ELSE wire

ServerInitialMetadata ==
  /\ shape # "none"
  /\ finalStatus = NoStatus
  /\ ~srvInitMd
  /\ srvInitMd' = TRUE
  /\ UNCHANGED <<shape, batchVars, finalStatus, wire, srvSent, events, cancels>>
  /\ UNCHANGED <<readVars, writeVars>>
  /\ UNCHANGED auxVars

ServerMessage ==
  /\ shape # "none"
  /\ finalStatus = NoStatus
  /\ srvInitMd
  /\ srvSent < (IF shape \in SingleResponse THEN 1 ELSE MaxMsgs)
  /\ \E ok \in BOOLEAN :
       wire' = Append(wire, [id |-> srvSent + 1, ok |-> ok])
  /\ srvSent' = srvSent + 1
  /\ UNCHANGED <<shape, batchVars, finalStatus, srvInitMd, events, cancels>>
  /\ UNCHANGED <<readVars, writeVars>>
  /\ UNCHANGED auxVars

\* The server ends the call: OK (after its one response on a single-response
\* call) or an error status, with trailing metadata.
ServerFinish ==
  /\ shape # "none"
  /\ finalStatus = NoStatus
  /\ \E code \in {OK, UNKNOWN} :
       /\ (code = OK /\ shape \in SingleResponse) => srvSent = 1
       /\ finalStatus' = [code |-> code,
                          details |-> IF code = OK THEN "" ELSE "peer error",
                          metadata |-> "core_trailer"]
  /\ UNCHANGED <<shape, batchVars, srvInitMd, wire, srvSent, events, cancels>>
  /\ UNCHANGED <<readVars, writeVars>>
  /\ UNCHANGED auxVars

DeadlineExpires ==
  /\ shape # "none"
  /\ finalStatus = NoStatus
  /\ finalStatus' = [code |-> DEADLINE_EXCEEDED, details |-> "Deadline Exceeded",
                     metadata |-> "core_empty"]
  /\ wire' = <<>>
  /\ UNCHANGED <<shape, batchVars, srvInitMd, srvSent, events, cancels>>
  /\ UNCHANGED <<readVars, writeVars>>
  /\ UNCHANGED auxVars

HasStatus == finalStatus # NoStatus

\* Initial metadata precedes messages and status: a batch that waits for
\* either completes after the batch that receives the initial metadata.
MetadataBatchPending ==
  \E b \in pending : RECV_INITIAL_METADATA \in submitted[b].ops

CanComplete(b) ==
  LET ops == submitted[b].ops IN
  /\ RECV_STATUS_ON_CLIENT \in ops => HasStatus
  /\ ops = {RECV_STATUS_ON_CLIENT} => wire = <<>>
  /\ RECV_INITIAL_METADATA \in ops => (srvInitMd \/ HasStatus)
  /\ RECV_MESSAGE \in ops => (wire # <<>> \/ HasStatus)
  /\ (RECV_INITIAL_METADATA \notin ops
        /\ ops \cap {RECV_MESSAGE, RECV_STATUS_ON_CLIENT} # {})
       => ~MetadataBatchPending

\* The errors a completion of batch b may report.
PossibleErr(b) ==
  LET ops == submitted[b].ops IN
  IF RECV_STATUS_ON_CLIENT \in ops THEN BOOLEAN
  ELSE IF RECV_INITIAL_METADATA \in ops
    THEN (IF srvInitMd THEN {FALSE} ELSE BOOLEAN)
  ELSE IF wire # <<>> THEN {FALSE} ELSE BOOLEAN

Completion(b, err) ==
  LET ops == submitted[b].ops IN
  [id |-> b,
   err |-> err,
   status |-> IF RECV_STATUS_ON_CLIENT \in ops THEN finalStatus ELSE NoStatus,
   read |-> IF RECV_MESSAGE \in ops /\ ~err /\ wire # <<>>
              THEN Head(wire) ELSE NullMsg,
   metadata |-> IF RECV_INITIAL_METADATA \in ops
                  THEN (IF srvInitMd THEN "core_initial" ELSE "core_empty")
                  ELSE "none"]

TransportComplete ==
  \E b \in pending :
    /\ CanComplete(b)
    /\ \E err \in PossibleErr(b) :
         cq' = Append(cq, Completion(b, err))
    /\ pending' = pending \ {b}
    /\ wire' = IF RECV_MESSAGE \in submitted[b].ops /\ wire # <<>>
                 THEN Tail(wire) ELSE wire
    /\ UNCHANGED <<shape, submitted, sendBatchVars, finalStatus, srvInitMd,
                   srvSent, events, cancels>>
    /\ UNCHANGED <<readVars, writeVars>>
    /\ UNCHANGED auxVars

\* A {SEND_MESSAGE} or {SEND_CLOSE_FROM_CLIENT} batch completes; it fails when
\* the call has already ended.
SendCompletion(b) ==
  [id |-> b, err |-> HasStatus, status |-> NoStatus, read |-> NullMsg,
   metadata |-> "none"]

TransportCompleteSend ==
  \E b \in sendPending :
    /\ sendCq' = Append(sendCq, SendCompletion(b))
    /\ sendPending' = sendPending \ {b}
    /\ UNCHANGED <<shape, recvBatchVars, sent, events, cancels>>
    /\ UNCHANGED <<transportVars, readVars, writeVars>>
    /\ UNCHANGED auxVars

\* ------------------------------------------- unary and client-streaming
\* The status the completion callback works with: response.status with its
\* metadata converted, replaced by a fresh {code, details} object when the
\* status is OK, the batch did not fail, and deserialize throws.
SurfacedStatus(err, response) ==
  LET status == [response.status EXCEPT !.metadata = FromCore(@)] IN
  IF status.code = OK /\ ~err /\ ~response.read.ok
    THEN [code |-> INTERNAL, details |-> ParseFailure, metadata |-> "undefined"]
    ELSE status

UnaryCallbackEvents_Both(err, response) ==
  LET status == SurfacedStatus(err, response) IN
  IF response.status.code = OK /\ err
    THEN << BatchError >>
    ELSE << IF status.code # OK
              THEN Ev("callback", status.code, response.status.details,
                      status.metadata, Deserialize(response.read))
              ELSE Ev("callback", "null", "", "undefined",
                      Deserialize(response.read)),
            Ev("status", status.code, status.details, status.metadata, 0),
            Ev("metadata", "-", "-", FromCore(response.metadata), 0) >>

\* What the callback of the unary batch hands to the application, in order.
UnaryCallbackEvents(err, response) ==
  LET status == SurfacedStatus(err, response) IN
  IF response.status.code = OK /\ err
    THEN << BatchError >>
    ELSE << IF status.code # OK
              THEN Ev("callback", status.code, response.status.details,
                      status.metadata, 0)
              ELSE Ev("callback", "null", "", "undefined",
                      Deserialize(response.read)),
            Ev("status", status.code, status.details, status.metadata, 0),
            Ev("metadata", "-", "-", FromCore(response.metadata), 0) >>

UnaryCallback ==
  /\ HeadKind = "unary"
  /\ events' = events \o UnaryCallbackEvents(Head(cq).err, Head(cq))
  /\ cq' = Tail(cq)
  /\ UNCHANGED <<shape, submitted, pending, sendBatchVars, cancels>>
  /\ UNCHANGED <<transportVars, readVars, writeVars>>
  /\ UNCHANGED auxVars

ClientStreamCallbackEvents_NoCode(err, response) ==
  LET status == SurfacedStatus(err, response) IN
  IF response.status.code = OK /\ err
    THEN << BatchError >>
    ELSE << IF status.code # OK
              THEN Ev("callback", "undefined", response.status.details,
                      status.metadata, 0)
              ELSE Ev("callback", "null", "", "undefined",
                      Deserialize(response.read)),
            Ev("status", status.code, status.details, status.metadata, 0) >>

\* What the callback of the {RECV_MESSAGE, RECV_STATUS_ON_CLIENT} batch of a
\* client-streaming call hands to the application, in order.
ClientStreamCallbackEvents(err, response) ==
  LET status == SurfacedStatus(err, response) IN
  IF response.status.code = OK /\ err
    THEN << BatchError >>
    ELSE << IF status.code # OK
              THEN Ev("callback", status.code, response.status.details,
                      status.metadata, 0)
              ELSE Ev("callback", "null", "", "undefined",
                      Deserialize(response.read)),
            Ev("status", status.code, status.details, status.metadata, 0) >>

\* ---------------------------------------------------------- stream.Readable
\* Node calls _read when the consumer reads, no _read is in progress, the
\* stream has not ended and the buffer is below its high-water mark. It does
\* so before the next completion callback runs.
NodeReadDue ==
  /\ shape \in StreamingResponse
  /\ started
  /\ ~nodeReading
  /\ ~rEnded
  /\ Len(rbuf) < HighWaterMark

\* The batch-completion callbacks run one at a time, in completion order.
CallbackTurn(kind) == HeadKind = kind /\ ~NodeReadDue

SendCallbackTurn(kind) ==
  /\ sendCq # <<>>
  /\ sent[Head(sendCq).id].kind = kind
  /\ ~NodeReadDue

ClientStreamCallback ==
  /\ CallbackTurn("client")
  /\ events' = events \o ClientStreamCallbackEvents(Head(cq).err, Head(cq))
  /\ cq' = Tail(cq)
  /\ UNCHANGED <<shape, submitted, pending, sendBatchVars, cancels>>
  /\ UNCHANGED <<transportVars, readVars, writeVars>>
  /\ UNCHANGED auxVars

\* The callback of the batch that receives the initial metadata (the same in
\* the client-streaming, server-streaming and bidi drivers).
MetadataCallbackEvents(err, response) ==
  IF err THEN <<>>
  ELSE << Ev("metadata", "-", "-", FromCore(response.metadata), 0) >>

MetadataCallback ==
  /\ CallbackTurn("metadata")
  /\ events' = events \o MetadataCallbackEvents(Head(cq).err, Head(cq))
  /\ cq' = Tail(cq)
  /\ UNCHANGED <<shape, submitted, pending, sendBatchVars, cancels>>
  /\ UNCHANGED <<transportVars, readVars, writeVars>>
  /\ UNCHANGED auxVars

StatusCallbackEvents_ErrorFirst(err, response) ==
  LET status == [response.status EXCEPT !.metadata = FromCore(@)] IN
  (IF status.code # OK
     THEN << Ev("error", status.code, status.details, status.metadata, 0) >>
     ELSE IF err
       THEN << [BatchError EXCEPT !.type = "error"] >>
       ELSE <<>>)
  \o << Ev("status", status.code, status.details, status.metadata, 0) >>

\* The callback of the {RECV_STATUS_ON_CLIENT} batch of the server-streaming
\* and bidi drivers.
StatusCallbackEvents(err, response) ==
  LET status == [response.status EXCEPT !.metadata = FromCore(@)] IN
  << Ev("status", status.code, status.details, status.metadata, 0) >>
  \o (IF status.code # OK
        THEN << Ev("error", status.code, status.details, status.metadata, 0) >>
        ELSE IF err
          THEN << [BatchError EXCEPT !.type = "error"] >>
          ELSE <<>>)

StatusCallback ==
  /\ CallbackTurn("status")
  /\ events' = events \o StatusCallbackEvents(Head(cq).err, Head(cq))
  /\ cq' = Tail(cq)
  /\ UNCHANGED <<shape, submitted, pending, sendBatchVars, cancels>>
  /\ UNCHANGED <<transportVars, readVars, writeVars>>
  /\ UNCHANGED auxVars

ReadBatch == Batch({RECV_MESSAGE}, "read", 0)

_read_Unguarded ==
  /\ NodeReadDue
  /\ IF finished
       THEN /\ rEnded' = TRUE
            /\ nodeReading' = FALSE
            /\ UNCHANGED <<reading, submitted, pending>>
       ELSE /\ nodeReading' = TRUE
            /\ rEnded' = rEnded
            /\ reading' = TRUE
            /\ Submit(ReadBatch)
  /\ UNCHANGED <<shape, cq, sendBatchVars, events, cancels, rbuf, finished,
                 endEmitted, started>>
  /\ UNCHANGED <<transportVars, writeVars>>
  /\ UNCHANGED auxVars

\* _read(size), called by Node (which sets state.reading before the call)
\* push(null) ends the stream and resets state.reading
_read ==
  /\ NodeReadDue
  /\ IF finished
       THEN /\ rEnded' = TRUE
            /\ nodeReading' = FALSE
            /\ UNCHANGED <<reading, submitted, pending>>
       ELSE /\ nodeReading' = TRUE
            /\ rEnded' = rEnded
            /\ IF ~reading
                 THEN reading' = TRUE /\ Submit(ReadBatch)
                 ELSE UNCHANGED <<reading, submitted, pending>>
  /\ UNCHANGED <<shape, cq, sendBatchVars, events, cancels, rbuf, finished,
                 endEmitted, started>>
  /\ UNCHANGED <<transportVars, writeVars>>
  /\ UNCHANGED auxVars

Pushed_NeverNull(data) == IF data.ok THEN "value" ELSE "undefined"

\* What readCallback pushes for a received message: null for the end of the
\* stream (wrapIgnoreNull), the value, or undefined (0) when deserialize threw
Pushed(data) ==
  IF data = NullMsg THEN "null"
  ELSE IF data.ok THEN "value"
  ELSE "undefined"

\* readCallback(err, event)
readCallback ==
  /\ CallbackTurn("read")
  /\ cq' = Tail(cq)
  /\ LET err == Head(cq).err
         data == Head(cq).read
         what == Pushed(data)
         buf == IF what = "null" THEN rbuf
                ELSE Append(rbuf, IF what = "value" THEN Deserialize(data) ELSE 0)
         more == what # "null" /\ Len(buf) < HighWaterMark
     IN IF err
       THEN /\ finished' = TRUE
            /\ UNCHANGED <<rbuf, reading, nodeReading, rEnded, submitted,
                           pending, finalStatus, wire>>
       ELSE /\ finished' = finished
            /\ finalStatus' = IF what = "undefined"
                                THEN StatusAfterCancel(INTERNAL, ParseFailure)
                                ELSE finalStatus
            /\ wire' = IF what = "undefined" THEN WireAfterCancel ELSE wire
            /\ rbuf' = buf
            /\ rEnded' = (what = "null")
            /\ nodeReading' = FALSE
            /\ IF more /\ data # NullMsg
                 THEN Submit(ReadBatch) /\ reading' = reading
                 ELSE reading' = FALSE /\ UNCHANGED <<submitted, pending>>
  /\ UNCHANGED <<shape, sendBatchVars, events, cancels, endEmitted, started,
                 srvInitMd, srvSent>>
  /\ UNCHANGED writeVars
  /\ UNCHANGED auxVars

\* The consumer starts reading: resume(), a 'data' listener, or read().
resume ==
  /\ shape \in StreamingResponse
  /\ ~started
  /\ started' = TRUE
  /\ UNCHANGED <<shape, batchVars, events, cancels, rbuf, finished, reading,
                 nodeReading, rEnded, endEmitted>>
  /\ UNCHANGED <<transportVars, writeVars>>
  /\ UNCHANGED auxVars

\* Node hands the oldest buffered chunk to the consumer.
EmitData ==
  /\ started
  /\ rbuf # <<>>
  /\ ~NodeReadDue
  /\ events' = Append(events, Ev("data", "-", "-", "-", Head(rbuf)))
  /\ rbuf' = Tail(rbuf)
  /\ UNCHANGED <<shape, batchVars, cancels, finished, reading, nodeReading, rEnded,
                 endEmitted, started>>
  /\ UNCHANGED <<transportVars, writeVars>>
  /\ UNCHANGED auxVars

\* Node emits 'end' once the buffer of an ended stream is drained.
EmitEnd ==
  /\ started
  /\ rEnded
  /\ rbuf = <<>>
  /\ ~endEmitted
  /\ endEmitted' = TRUE
  /\ UNCHANGED <<shape, batchVars, events, cancels, rbuf, finished, reading, nodeReading,
                 rEnded, started>>
  /\ UNCHANGED <<transportVars, writeVars>>
  /\ UNCHANGED auxVars

\* ---------------------------------------------------------- stream.Writable
WritesStarted == Cardinality({i \in DOMAIN sent : sent[i].kind = "write"})

WriteBatch_WithClose(chunk) ==
  Batch({SEND_MESSAGE, SEND_CLOSE_FROM_CLIENT}, "write", chunk)

\* _write(chunk, encoding, callback): one {SEND_MESSAGE} batch for the chunk
WriteBatch(chunk) == Batch({SEND_MESSAGE}, "write", chunk)

\* The 'finish' listener of ClientWritableStream and ClientDuplexStream
CloseBatch == Batch({SEND_CLOSE_FROM_CLIENT}, "close", 0)

\* stream.write(chunk): Node calls _write at once when no write is in
\* progress and buffers the chunk otherwise.
write ==
  /\ shape \in StreamingRequest
  /\ ~wEnding
  /\ written < MaxWrites
  /\ written' = written + 1
  /\ IF wWriting
       THEN wq' = wq + 1 /\ UNCHANGED <<wWriting, sent, sendPending>>
       ELSE wWriting' = TRUE /\ SubmitSend(WriteBatch(written + 1)) /\ wq' = wq
  /\ UNCHANGED <<shape, recvBatchVars, sendCq, events, cancels, wEnding, wFinished>>
  /\ UNCHANGED <<transportVars, readVars>>
  /\ UNCHANGED auxVars

end_Eager ==
  /\ shape \in StreamingRequest
  /\ ~wEnding
  /\ wEnding' = TRUE
  /\ wFinished' = TRUE
  /\ SubmitSend(CloseBatch)
  /\ UNCHANGED <<shape, recvBatchVars, sendCq, events, cancels, wq, wWriting,
                 written>>
  /\ UNCHANGED <<transportVars, readVars>>
  /\ UNCHANGED auxVars

\* stream.end(): 'finish' is emitted once every write has called back.
end ==
  /\ shape \in StreamingRequest
  /\ ~wEnding
  /\ wEnding' = TRUE
  /\ IF ~wWriting /\ wq = 0
       THEN wFinished' = TRUE /\ SubmitSend(CloseBatch)
       ELSE UNCHANGED <<wFinished, sent, sendPending>>
  /\ UNCHANGED <<shape, recvBatchVars, sendCq, events, cancels, wq, wWriting,
                 written>>
  /\ UNCHANGED <<transportVars, readVars>>
  /\ UNCHANGED auxVars

writeCallback_SurfaceError ==
  /\ SendCallbackTurn("write")
  /\ sendCq' = Tail(sendCq)
  /\ IF Head(sendCq).err
       THEN /\ events' = Append(events, [BatchError EXCEPT !.type = "error"])
            /\ UNCHANGED <<wq, wWriting, wFinished, sent, sendPending>>
       ELSE /\ events' = events
            /\ IF wq > 0
                 THEN /\ wq' = wq - 1
                      /\ SubmitSend(WriteBatch(WritesStarted + 1))
                      /\ UNCHANGED <<wWriting, wFinished>>
                 ELSE /\ wWriting' = FALSE
                      /\ wq' = wq
                      /\ IF wEnding
                           THEN wFinished' = TRUE /\ SubmitSend(CloseBatch)
                           ELSE UNCHANGED <<wFinished, sent, sendPending>>
  /\ UNCHANGED <<shape, recvBatchVars, cancels, wEnding, written>>
  /\ UNCHANGED <<transportVars, readVars>>
  /\ UNCHANGED auxVars

\* The callback _write gives to startBatch: on an error it returns without
\* calling Node's callback; otherwise Node writes the next buffered chunk, or
\* finishes the stream when end() was called and nothing is left.
writeCallback ==
  /\ SendCallbackTurn("write")
  /\ sendCq' = Tail(sendCq)
  /\ IF Head(sendCq).err
       THEN UNCHANGED <<wq, wWriting, wFinished, sent, sendPending>>
       ELSE IF wq > 0
         THEN /\ wq' = wq - 1
              /\ SubmitSend(WriteBatch(WritesStarted + 1))
              /\ UNCHANGED <<wWriting, wFinished>>
         ELSE /\ wWriting' = FALSE
              /\ wq' = wq
              /\ IF wEnding
                   THEN wFinished' = TRUE /\ SubmitSend(CloseBatch)
                   ELSE UNCHANGED <<wFinished, sent, sendPending>>
  /\ UNCHANGED <<shape, recvBatchVars, events, cancels, wEnding, written>>
  /\ UNCHANGED <<transportVars, readVars>>
  /\ UNCHANGED auxVars

\* The callback of the {SEND_CLOSE_FROM_CLIENT} batch: function() {}
closeCallback ==
  /\ SendCallbackTurn("close")
  /\ sendCq' = Tail(sendCq)
  /\ UNCHANGED <<shape, recvBatchVars, sent, sendPending, events, cancels>>
  /\ UNCHANGED <<transportVars, readVars, writeVars>>
  /\ UNCHANGED auxVars

\* ------------------------------------------------------------------ cancel
\* cancel() of the emitter or stream: call.cancel()
CancelCall_Forgotten == finalStatus

CancelCall == StatusAfterCancel(CANCELLED, "Cancelled")

cancel ==
  /\ shape # "none"
  /\ cancels < MaxCancels
  /\ cancels' = cancels + 1
  /\ finalStatus' = CancelCall
  /\ wire' = WireAfterCancel
  /\ UNCHANGED <<shape, batchVars, srvInitMd, srvSent, events>>
  /\ UNCHANGED <<readVars, writeVars>>
  /\ UNCHANGED auxVars

Next ==
  \/ makeUnaryRequest
  \/ makeClientStreamRequest
  \/ makeServerStreamRequest
  \/ makeBidiStreamRequest
  \/ ServerInitialMetadata
  \/ ServerMessage
  \/ ServerFinish
  \/ DeadlineExpires
  \/ TransportComplete
  \/ TransportCompleteSend
  \/ UnaryCallback
  \/ ClientStreamCallback
  \/ MetadataCallback
  \/ StatusCallback
  \/ _read
  \/ readCallback
  \/ resume
  \/ EmitData
  \/ EmitEnd
  \/ write
  \/ end
  \/ writeCallback
  \/ closeCallback
  \/ cancel

Spec == Init /\ [][Next]_vars

\* ------------------------------------------------------------ properties
\* The callback of batch i of `submitted` has run.
CallbackRan(i) ==
  /\ i \in DOMAIN submitted
  /\ i \notin pending
  /\ \A k \in DOMAIN cq : cq[k].id # i

\* The events a step adds to the application's log.
NewEvents == SubSeq(events', Len(events) + 1, Len(events'))

\* The step is the completion callback of a unary or client-streaming call.
SingleResponseCallbackStep ==
  /\ HeadKind \in {"unary", "client"}
  /\ cq' = Tail(cq)

IsResponse(e) == e.type = "data" \/ (e.type = "callback" /\ e.code = "null")

\* C1: on every call of every shape, once the batch that receives the status
\* has completed and its callback has run, the application has received
\* exactly one 'status' event, and it never receives two.
C1_ExactlyOneStatusEvent ==
  /\ Count("status") <= 1
  /\ \A i \in DOMAIN submitted :
       (RECV_STATUS_ON_CLIENT \in submitted[i].ops /\ CallbackRan(i))
         => Count("status") = 1

\* C2: on every call the 'metadata' event is delivered at most once and every
\* delivery of a received message (the response handed to the callback, a
\* 'data' event) comes after it.
C2_MetadataBeforeFirstMessage ==
  /\ Count("metadata") <= 1
  /\ \A i \in DOMAIN events :
       IsResponse(events[i])
         => \E j \in 1..(i - 1) : events[j].type = "metadata"

\* The 'data' events that carry a received message.
MessagesDelivered ==
  Cardinality({i \in DOMAIN events :
                 events[i].type = "data" /\ events[i].value # 0})

\* C3: on a server-streaming or bidi call the 'status' event is delivered at
\* most once and no 'data' event carrying a received message is delivered
\* after it.
C3_NoDataAfterStatus ==
  shape \in StreamingResponse =>
    /\ Count("status") <= 1
    /\ \A i, j \in DOMAIN events :
         (events[i].type = "status" /\ events[j].type = "data"
            /\ events[j].value # 0) => j < i

\* C4: once the application has called cancel(), no further 'data' event
\* carrying a received message is delivered to it.
C4_NoDataAfterCancel ==
  [][cancels > 0 => MessagesDelivered' = MessagesDelivered]_vars

IsTerminal(e) == e.type \in {"status", "error", "callback"}

\* C5: a cancel() called before the call has a final status makes CANCELLED
\* the final status, a final status never changes once the call has it, every
\* terminal event of a call whose final status is CANCELLED carries CANCELLED,
\* and a cancel() called after the status has arrived changes nothing but the
\* number of cancel() calls.
C5_CancelRaceSafe ==
  /\ [][(cancels' # cancels /\ ~HasStatus) => finalStatus'.code = CANCELLED]_vars
  /\ [][HasStatus => finalStatus' = finalStatus]_vars
  /\ [](finalStatus.code = CANCELLED =>
          \A i \in DOMAIN events :
            IsTerminal(events[i]) => events[i].code = CANCELLED)
  /\ [][(cancels' # cancels /\ HasStatus) =>
          UNCHANGED <<shape, batchVars, transportVars, events, readVars,
                      writeVars>>]_vars

\* A cancel() won the race and the application has been told CANCELLED.
C5_Witness ==
  /\ cancels > 0
  /\ \E i \in DOMAIN events :
       events[i].type = "status" /\ events[i].code = CANCELLED

\* C6: a unary call submits exactly one batch, made of the six operations,
\* and no other batch.
C6_UnarySingleBatch ==
  shape = "unary" =>
    /\ Len(submitted) = 1
    /\ submitted[1].ops =
         {"SEND_INITIAL_METADATA", "SEND_MESSAGE", "SEND_CLOSE_FROM_CLIENT",
          "RECV_INITIAL_METADATA", "RECV_MESSAGE", "RECV_STATUS_ON_CLIENT"}
    /\ sent = <<>>

\* A unary call that was cancelled and has called back.
C6_Witness ==
  shape = "unary" /\ cancels > 0 /\ Count("callback") = 1

\* C7: when the completion callback of a unary or client-streaming call runs
\* with status OK and a message that deserialises, the application's callback
\* gets the deserialised response and no error; with any other status code it
\* gets an error carrying that code and no response.
C7_SurfaceResponseOrError ==
  [][SingleResponseCallbackStep =>
       LET c == Head(cq)
           cb == NewEvents[1]
       IN /\ cb.type = "callback"
          /\ (c.status.code = "OK" /\ ~c.err /\ c.read.ok)
               => (cb.code = "null" /\ cb.value = c.read.id /\ c.read.id > 0)
          /\ c.status.code # "OK"
               => (cb.code = c.status.code /\ cb.value = 0)]_vars

\* A client-streaming call has handed a response to its callback.
C7_Witness ==
  /\ shape = "client_stream"
  /\ \E i \in DOMAIN events :
       events[i].type = "callback" /\ events[i].code = "null"
         /\ events[i].value > 0

\* C8: when a unary or client-streaming call completes with status OK and
\* deserialising the response throws, the error handed to the callback has
\* code INTERNAL and message "Failed to parse server response", and the
\* 'status' event carries that code and those details.
C8_ParseFailureDowngrade ==
  [][(SingleResponseCallbackStep /\ Head(cq).status.code = "OK"
        /\ ~Head(cq).err /\ ~Head(cq).read.ok) =>
       /\ Len(NewEvents) >= 2
       /\ NewEvents[1].type = "callback"
       /\ NewEvents[1].code = "INTERNAL"
       /\ NewEvents[1].details = "Failed to parse server response"
       /\ NewEvents[2].type = "status"
       /\ NewEvents[2].code = "INTERNAL"
       /\ NewEvents[2].details = "Failed to parse server response"]_vars

\* C9: every error a unary or client-streaming call hands to its callback
\* because no response is surfaced (a non-OK status, or the downgrade of a
\* response that does not deserialise) carries the call's trailing metadata.
C9_ErrorCarriesTrailer ==
  [][(SingleResponseCallbackStep
        /\ (Head(cq).status.code # "OK"
              \/ (~Head(cq).err /\ ~Head(cq).read.ok))) =>
       /\ NewEvents[1].type = "callback"
       /\ NewEvents[1].metadata = FromCore(Head(cq).status.metadata)]_vars

\* C10: a client-streaming call opens with exactly the two batches
\* {SEND_INITIAL_METADATA, RECV_INITIAL_METADATA} and {RECV_MESSAGE,
\* RECV_STATUS_ON_CLIENT}, submitted before any write, and its callback is
\* invoked exactly when the callback of the second batch has run, whatever
\* became of the first.
C10_ClientStreamOpen ==
  shape = "client_stream" =>
    /\ Len(submitted) = 2
    /\ submitted[1].ops = {"SEND_INITIAL_METADATA", "RECV_INITIAL_METADATA"}
    /\ submitted[2].ops = {"RECV_MESSAGE", "RECV_STATUS_ON_CLIENT"}
    /\ \A i \in DOMAIN sent :
         sent[i].ops \in {{"SEND_MESSAGE"}, {"SEND_CLOSE_FROM_CLIENT"}}
    /\ (written = 0 /\ ~wEnding) => sent = <<>>
    /\ Count("callback") = (IF CallbackRan(2) THEN 1 ELSE 0)

\* A client-streaming call whose first batch failed (no 'metadata' event)
\* and whose callback was invoked all the same, after a write.
C10_Witness ==
  /\ shape = "client_stream"
  /\ CallbackRan(1)
  /\ Count("metadata") = 0
  /\ Count("callback") = 1
  /\ written > 0

\* The write batches whose callback has not run yet.
WriteOutstanding ==
  {i \in sendPending : sent[i].kind = "write"}
    \cup {sendCq[k].id : k \in {j \in DOMAIN sendCq : sent[sendCq[j].id].kind = "write"}}

\* The positions in `sent` of the write batches, and of the close batches.
WriteIndices == {i \in DOMAIN sent : sent[i].kind = "write"}
CloseIndices == {i \in DOMAIN sent : sent[i].kind = "close"}

OpCount(op) ==
  Cardinality({i \in DOMAIN submitted : op \in submitted[i].ops})
    + Cardinality({i \in DOMAIN sent : op \in sent[i].ops})

\* C13: on every call, whatever the writes, end() and cancel() calls,
\* SEND_INITIAL_METADATA is submitted at most once and SEND_CLOSE_FROM_CLIENT
\* at most once.
C13_SendOpsAtMostOnce ==
  /\ OpCount("SEND_INITIAL_METADATA") <= 1
  /\ OpCount("SEND_CLOSE_FROM_CLIENT") <= 1

\* A cancelled bidi call with writes and a half-close, all called back.
C13_Witness ==
  /\ shape = "bidi"
  /\ cancels > 0
  /\ written > 0
  /\ wFinished
  /\ sendPending = {}
  /\ sendCq = <<>>
  /\ OpCount("SEND_CLOSE_FROM_CLIENT") = 1

\* C14: a server-streaming call opens with the batch {SEND_INITIAL_METADATA,
\* SEND_MESSAGE, SEND_CLOSE_FROM_CLIENT, RECV_INITIAL_METADATA} and one
\* {RECV_STATUS_ON_CLIENT} batch; neither contains RECV_MESSAGE, and every
\* later batch is a {RECV_MESSAGE} batch.
C14_ServerStreamOpen ==
  shape = "server_stream" =>
    /\ Len(submitted) >= 2
    /\ submitted[1].ops = {"SEND_INITIAL_METADATA", "SEND_MESSAGE",
                           "SEND_CLOSE_FROM_CLIENT", "RECV_INITIAL_METADATA"}
    /\ submitted[2].ops = {"RECV_STATUS_ON_CLIENT"}
    /\ \A i \in 3..Len(submitted) : submitted[i].ops = {"RECV_MESSAGE"}
    /\ sent = <<>>

\* A server-streaming call that has read a message and has its status.
C14_Witness ==
  /\ shape = "server_stream"
  /\ Len(submitted) >= 3
  /\ CallbackRan(2)
  /\ MessagesDelivered >= 1

\* The step runs the callback of a {RECV_MESSAGE} batch.
ReadCallbackStep == HeadKind = "read" /\ cq' = Tail(cq)

\* The values of the 'data' events that carry a received message, then those
\* still in the readable buffer, in order.
ReceivedValues ==
  LET delivered == SelectSeq(events, LAMBDA e : e.type = "data" /\ e.value # 0)
      buffered == SelectSeq(rbuf, LAMBDA v : v # 0)
  IN [i \in 1..Len(delivered) |-> delivered[i].value] \o buffered

\* C15: on a server-streaming or bidi call a {RECV_MESSAGE} batch is submitted
\* only when the consumer reads and the readable buffer is below its
\* high-water mark, the received messages reach the consumer in on-wire
\* order, and once a RECV_MESSAGE has completed without error and without
\* payload the readable side has ended and no batch is submitted any more.
C15_ReadsOnDemandInOrder ==
  /\ [][(shape \in StreamingResponse /\ Len(submitted') > Len(submitted)) =>
          /\ started
          /\ Len(rbuf') < HighWaterMark
          /\ submitted'[Len(submitted')].ops = {"RECV_MESSAGE"}]_vars
  /\ [](\A i, j \in DOMAIN ReceivedValues :
          i < j => ReceivedValues[i] < ReceivedValues[j])
  /\ [][(ReadCallbackStep /\ ~Head(cq).err /\ Head(cq).read.id = 0) =>
          (rEnded' /\ submitted' = submitted)]_vars
  /\ [][rEnded => submitted' = submitted]_vars
  /\ [](rEnded => \A b \in pending : submitted[b].kind # "read")

\* Two messages were delivered and the stream ended on the empty RECV_MESSAGE.
C15_Witness ==
  /\ shape \in StreamingResponse
  /\ MessagesDelivered = 2
  /\ ~finished
  /\ endEmitted

\* The step runs the callback of the {RECV_STATUS_ON_CLIENT} batch of a
\* server-streaming or bidi call.
StatusCallbackStep == HeadKind = "status" /\ cq' = Tail(cq)

\* C16: when the callback of the {RECV_STATUS_ON_CLIENT} batch of a
\* server-streaming or bidi call runs with a non-OK status it emits 'status'
\* and then one 'error' carrying the status's code, details and metadata; with
\* status OK and no batch error it emits 'status' alone; the call has at most
\* one 'error' event, and it follows the 'status' event.
C16_StatusErrorEvent ==
  /\ [][StatusCallbackStep =>
          LET c == Head(cq) IN
          /\ c.status.code # "OK" =>
               /\ Len(NewEvents) = 2
               /\ NewEvents[1].type = "status"
               /\ NewEvents[2] = [type |-> "error", code |-> c.status.code,
                                  details |-> c.status.details,
                                  metadata |-> FromCore(c.status.metadata),
                                  value |-> 0]
          /\ (c.status.code = "OK" /\ ~c.err) =>
               (Len(NewEvents) = 1 /\ NewEvents[1].type = "status")]_vars
  /\ [](shape \in StreamingResponse =>
          /\ Count("error") <= 1
          /\ \A i \in DOMAIN events :
               events[i].type = "error" =>
                 (i > 1 /\ events[i - 1].type = "status"))

\* A server-streaming call whose deadline expired reported it as an 'error'.
C16_Witness ==
  /\ shape = "server_stream"
  /\ \E i \in DOMAIN events :
       events[i].type = "error" /\ events[i].code = "DEADLINE_EXCEEDED"

\* C17: a bidi call opens with the batch {SEND_INITIAL_METADATA,
\* RECV_INITIAL_METADATA} and one {RECV_STATUS_ON_CLIENT} batch; every later
\* batch is a {RECV_MESSAGE}, a {SEND_MESSAGE} or a {SEND_CLOSE_FROM_CLIENT}
\* batch, and a step of the write side changes nothing of the read side (and
\* so a step of the read side nothing of the write side).
C17_BidiOpenIndependent ==
  /\ [](shape = "bidi" =>
          /\ Len(submitted) >= 2
          /\ submitted[1].ops = {"SEND_INITIAL_METADATA", "RECV_INITIAL_METADATA"}
          /\ submitted[2].ops = {"RECV_STATUS_ON_CLIENT"}
          /\ \A i \in 3..Len(submitted) : submitted[i].ops = {"RECV_MESSAGE"}
          /\ \A i \in DOMAIN sent :
               sent[i].ops \in {{"SEND_MESSAGE"}, {"SEND_CLOSE_FROM_CLIENT"}})
  /\ [][(shape = "bidi"
           /\ (sendBatchVars' # sendBatchVars \/ writeVars' # writeVars)) =>
          UNCHANGED <<recvBatchVars, readVars, events>>]_vars

\* A bidi call on which a message was delivered and a first write completed
\* while a read and a second write are outstanding.
C17_Witness ==
  /\ shape = "bidi"
  /\ MessagesDelivered >= 1
  /\ Cardinality(WriteIndices) = 2
  /\ WriteOutstanding # {}
  /\ \E b \in pending : submitted[b].kind = "read"

\* C18: on a bidi call whose read side has ended and whose status is known,
\* ending the write side when no write batch is outstanding finishes the
\* writable side: the {SEND_CLOSE_FROM_CLIENT} batch is submitted and the
\* application receives no event from it.
C18_WriteSideClosesCleanly ==
  [][(shape = "bidi" /\ endEmitted /\ HasStatus /\ WriteOutstanding = {}
        /\ ~wEnding /\ wEnding') =>
       (wFinished' /\ CloseIndices' # {} /\ events' = events)]_vars

\* The step runs the callback of a {SEND_MESSAGE} batch.
WriteCallbackStep ==
  /\ sendCq # <<>>
  /\ sent[Head(sendCq).id].kind = "write"
  /\ sendCq' = Tail(sendCq)

\* C19: when the {SEND_MESSAGE} batch of a write fails, its callback hands no
\* event to the application and does not call the write's continuation, and
\* a client-streaming call never emits 'error'.
C19_FailedWriteDropped ==
  /\ [][(WriteCallbackStep /\ Head(sendCq).err) =>
          /\ events' = events
          /\ UNCHANGED <<wq, wWriting, wFinished, sent>>]_vars
  /\ [](shape = "client_stream" => Count("error") = 0)

\* The batch of a write on a cancelled call has failed and called back.
C19_Witness ==
  /\ shape \in StreamingRequest
  /\ cancels > 0
  /\ finalStatus.code = "CANCELLED"
  /\ wWriting
  /\ WriteOutstanding = {}

\* C20: the callback of the {SEND_MESSAGE} batch of a write calls the write's
\* continuation, whether or not the batch failed: after it Node has started
\* the next buffered write or no write is in progress.
C20_ContinuationInvoked ==
  [][WriteCallbackStep => (~wWriting' \/ Len(sent') > Len(sent))]_vars

\* C32: a unary or client-streaming call invokes the application's callback
\* at most once, exactly once when the callback of the batch that receives
\* the status has run, and each time with an error and no response or with a
\* response and no error, whatever batch error and status the transport
\* reports.
C32_CallbackOnceErrorOrResponse ==
  shape \in SingleResponse =>
    /\ Count("callback") <= 1
    /\ \A i \in DOMAIN submitted :
         (RECV_STATUS_ON_CLIENT \in submitted[i].ops /\ CallbackRan(i))
           => Count("callback") = 1
    /\ \A i \in DOMAIN events :
         events[i].type = "callback" =>
           \/ (events[i].code = "null" /\ events[i].value > 0)
           \/ (events[i].code # "null" /\ events[i].value = 0)

\* A unary call whose batch failed with status OK called back with the
\* batch error.
C32_Witness ==
  /\ shape = "unary"
  /\ \E i \in DOMAIN events :
       events[i].type = "callback" /\ events[i].details = "batch failed"

\* The {RECV_MESSAGE} batches whose callback has not run yet.
ReadOutstanding ==
  {i \in pending : submitted[i].kind = "read"}
    \cup {cq[k].id : k \in {j \in DOMAIN cq : submitted[cq[j].id].kind = "read"}}

\* C33: on a server-streaming or bidi call at most one {RECV_MESSAGE} batch
\* is outstanding, and one is outstanding only while the stream's reading
\* flag is set.
C33_OneReadOutstanding ==
  shape \in StreamingResponse =>
    /\ Cardinality(ReadOutstanding) <= 1
    /\ ReadOutstanding # {} => reading

\* A read is outstanding while Node has asked again and a message waits in
\* the readable buffer.
C33_Witness ==
  /\ shape \in StreamingResponse
  /\ Cardinality(ReadOutstanding) = 1
  /\ nodeReading
  /\ rbuf # <<>>
  /\ MessagesDelivered >= 1

\* C34: on a server-streaming or bidi call, once a {RECV_MESSAGE} batch has
\* failed the stream can still end: it has ended, or a read is outstanding,
\* or Node is not waiting for a push and so will call _read, which ends it.
C34_FailedReadEndsStream ==
  (shape \in StreamingResponse /\ finished /\ ~rEnded) =>
    (ReadOutstanding # {} \/ ~nodeReading)

\* C35: on a server-streaming or bidi call, when deserialising a received
\* message throws, readCallback cancels the call with INTERNAL and "Failed to
\* parse server response" (which decides the final status unless the call has
\* one), puts nothing into the readable buffer and submits no batch.
C35_ParseFailureStopsReading ==
  [][(ReadCallbackStep /\ ~Head(cq).err /\ ~Head(cq).read.ok) =>
       /\ finalStatus = NoStatus =>
            (finalStatus'.code = "INTERNAL"
               /\ finalStatus'.details = "Failed to parse server response")
       /\ finalStatus # NoStatus => finalStatus' = finalStatus
       /\ rbuf' = rbuf
       /\ submitted' = submitted]_vars

\* ------------------------------------------------- client construction
MaxMethods == 2       \* entries of a method map

\* Method names, as sequences of characters.
MethodNames == { <<"f">>, <<"g">>, <<"$", "f">>, <<"f", "$">>, <<"$">> }

MethodAttrs ==
  [name : MethodNames, requestStream : BOOLEAN, responseStream : BOOLEAN]

\* The method maps: objects enumerated in insertion order, one entry a name.
MethodMaps ==
  {m \in UNION {[1..n -> MethodAttrs] : n \in 0..MaxMethods} :
     \A i, j \in DOMAIN m : m[i].name = m[j].name => i = j}

\* 'grpc-node/' + version
LibraryUserAgent == "grpc-node/version"

\* The options objects a caller passes to the constructor: none, or one with
\* or without its own grpc.primary_user_agent.
NoOptions ==
  [passed |-> FALSE, primary_user_agent |-> "absent",
   ssl_target_name_override |-> "absent"]

CallerOptions ==
  {NoOptions} \cup [passed : {TRUE},
                    primary_user_agent : {"absent", "my-app/1.0"},
                    ssl_target_name_override : {"absent", "foo.test"}]

startsWith_Whole(name, ch) == name = <<ch>>

\* _.startsWith(name, '$')
startsWith(name, ch) == Len(name) > 0 /\ name[1] = ch

\* method_type, from requestStream and responseStream
MethodType(attrs) ==
  IF attrs.requestStream
    THEN (IF attrs.responseStream THEN "bidi" ELSE "client_stream")
    ELSE (IF attrs.responseStream THEN "server_stream" ELSE "unary")

\* _.each(methods, ...): the entries in order, until one throws.
RECURSIVE EachMethod(_, _, _)
EachMethod(methods, i, proto) ==
  IF i > Len(methods) THEN [threw |-> FALSE, proto |-> proto]
  ELSE IF startsWith(methods[i].name, "$") THEN [threw |-> TRUE, proto |-> proto]
  ELSE EachMethod(methods, i + 1,
                  proto \cup {[name |-> methods[i].name,
                               type |-> MethodType(methods[i])]})

\* makeClientConstructor(methods, serviceName)
makeClientConstructor ==
  /\ ctor.pc = "idle"
  /\ \E methods \in MethodMaps :
       LET r == EachMethod(methods, 1, {}) IN
       ctor' = [pc |-> IF r.threw THEN "threw" ELSE "made",
                methods |-> methods,
                proto |-> r.proto,
                returned |-> ~r.threw]
  /\ UNCHANGED <<callVars, creds, ready, svc, chan>>

\* The options the constructor hands to grpc.Channel. The user agent is a
\* sequence of product tokens.
ChannelOptions(options) ==
  [passed |-> TRUE,
   primary_user_agent |-> << LibraryUserAgent >>,
   ssl_target_name_override |-> options.ssl_target_name_override]

\* new Client(address, credentials, options)
Client ==
  /\ ctor.pc = "made"
  /\ \E options \in CallerOptions :
       ctor' = [pc |-> "constructed",
                methods |-> ctor.methods,
                proto |-> ctor.proto,
                returned |-> TRUE,
                options |-> options,
                channelOptions |-> ChannelOptions(options)]
  /\ UNCHANGED <<callVars, creds, ready, svc, chan>>

ClientNext ==
  \/ makeClientConstructor
  \/ Client

ClientSpec == Init /\ [][ClientNext]_vars

\* C21: makeClientConstructor throws, and returns no constructor, exactly
\* when some name of the method map starts with '$', wherever that name is
\* in the map and whatever the other methods are.
C21_ReservedPrefixRejected ==
  ctor.pc # "idle" =>
    LET reserved == \E i \in DOMAIN ctor.methods :
                      /\ Len(ctor.methods[i].name) >= 1
                      /\ ctor.methods[i].name[1] = "$"
    IN /\ reserved <=> ctor.pc = "threw"
       /\ reserved <=> ~ctor.returned

\* A map whose second name is the reserved one was rejected.
C21_Witness ==
  /\ ctor.pc = "threw"
  /\ Len(ctor.methods) = 2
  /\ ctor.methods[1].name = <<"f">>
  /\ ctor.methods[2].name = <<"$", "f">>

\* C22: the user agent the client hands to the channel is the caller's
\* primary_user_agent, when there is one, followed by the library's
\* 'grpc-node/<version>'.
C22_UserAgentPrepended ==
  ctor.pc = "constructed" =>
    ctor.channelOptions.primary_user_agent =
      (IF ctor.options.passed /\ ctor.options.primary_user_agent # "absent"
         THEN << ctor.options.primary_user_agent >> ELSE << >>)
      \o << "grpc-node/version" >>

\* ----------------------------------------------------------- credentials
MaxCreds == 3         \* call credentials in one composed credential

\* A credential: its kind ("channel", "call", "absent" for a missing
\* argument, "error" for a composition that threw), for a channel credential
\* its base and whether it is composable, the call credentials it carries in
\* order, and the number of composeChannel applications that built it.
Cred(kind, base, composable, calls, depth) ==
  [kind |-> kind, base |-> base, composable |-> composable, calls |-> calls,
   depth |-> depth]

Absent == Cred("absent", "none", FALSE, <<>>, 0)
InvalidArgument == Cred("error", "none", FALSE, <<>>, 0)

\* createInsecure(), createSsl(root_certs), createFromMetadataGenerator(fn)
createInsecure == Cred("channel", "insecure", FALSE, <<>>, 0)
createSsl == Cred("channel", "ssl", TRUE, <<>>, 0)
createFromMetadataGenerator(fn) == Cred("call", "none", FALSE, <<fn>>, 0)

MetadataGenerators == {1, 2}

\* composeCall(k1, k2): one call credential that runs both generators in order
composeCall(k1, k2) ==
  IF k1.kind # "call" \/ k2.kind # "call" THEN InvalidArgument
  ELSE Cred("call", "none", FALSE, k1.calls \o k2.calls, 0)

composeChannel_NoCheck(c, k) ==
  IF c.kind # "channel" \/ k.kind # "call" THEN InvalidArgument
  ELSE Cred("channel", c.base, FALSE, c.calls \o k.calls, c.depth + 1)

composeChannel_Composable(c, k) ==
  IF c.kind # "channel" \/ k.kind # "call" THEN InvalidArgument
  ELSE IF ~c.composable THEN InvalidArgument
  ELSE Cred("channel", c.base, TRUE, c.calls \o k.calls, c.depth + 1)

\* composeChannel(c, k): requires both arguments and a composable c; the
\* result is a channel credential that is not composable.
composeChannel(c, k) ==
  IF c.kind # "channel" \/ k.kind # "call" THEN InvalidArgument
  ELSE IF ~c.composable THEN InvalidArgument
  ELSE Cred("channel", c.base, FALSE, c.calls \o k.calls, c.depth + 1)

\* current.compose(other): the method of the credential object at hand
compose(current, other) ==
  IF current.kind = "channel" THEN composeChannel(current, other)
  ELSE IF current.kind = "call" THEN composeCall(current, other)
  ELSE InvalidArgument

\* for (i = from; i < arguments.length; i++) current = current.compose(arguments[i])
\* with the compose calls made, in order; a compose that throws ends the loop.
RECURSIVE ComposeLoop(_, _, _, _)
ComposeLoop(current, arguments, i, log) ==
  IF i > Len(arguments) THEN [value |-> current, log |-> log]
  ELSE LET next == compose(current, arguments[i])
           made == Append(log, [on |-> current, with |-> arguments[i]])
       IN IF next.kind = "error" THEN [value |-> next, log |-> made]
          ELSE ComposeLoop(next, arguments, i + 1, made)

\* combineChannelCredentials(channel_credential, ...credentials)
combineChannelCredentials(arguments) ==
  ComposeLoop(IF arguments = <<>> THEN Absent ELSE arguments[1], arguments, 2, <<>>)

\* combineCallCredentials(...credentials)
combineCallCredentials(arguments) ==
  ComposeLoop(IF arguments = <<>> THEN Absent ELSE arguments[1], arguments, 2, <<>>)

\* The last composition made: its operation, arguments, result and compose calls.
Composition(op, arguments, result, log) ==
  [op |-> op, arguments |-> arguments, result |-> result, log |-> log]

\* The application creates its first credentials.
CreateCredentials ==
  /\ creds.pc = "idle"
  /\ \E c \in {createInsecure, createSsl}, fn \in MetadataGenerators :
       creds' = [pc |-> "have", c |-> c, k |-> createFromMetadataGenerator(fn),
                 last |-> Composition("create", <<>>, c, <<>>)]
  /\ UNCHANGED <<callVars, ctor, ready, svc, chan>>

\* The application composes its call credential with a new one.
CallComposeCall ==
  /\ creds.pc = "have"
  /\ Len(creds.k.calls) < MaxCreds
  /\ \E fn \in MetadataGenerators :
       LET other == createFromMetadataGenerator(fn)
           r == composeCall(creds.k, other)
       IN creds' = [creds EXCEPT !.k = r,
                      !.last = Composition("composeCall", <<creds.k, other>>, r, <<>>)]
  /\ UNCHANGED <<callVars, ctor, ready, svc, chan>>

\* The application composes its channel credential with its call credential,
\* either of which it may have failed to pass.
CallComposeChannel ==
  /\ creds.pc = "have"
  /\ \E c \in {creds.c, Absent}, k \in {creds.k, Absent} :
       LET r == composeChannel(c, k) IN
       creds' = [creds EXCEPT !.c = IF r.kind = "error" THEN @ ELSE r,
                   !.last = Composition("composeChannel", <<c, k>>, r, <<>>)]
  /\ UNCHANGED <<callVars, ctor, ready, svc, chan>>

\* The application combines its channel credential with n call credentials.
CallCombineChannelCredentials ==
  /\ creds.pc = "have"
  /\ \E n \in 0..MaxCreds :
       \E fns \in [1..n -> MetadataGenerators] :
         LET arguments == <<creds.c>>
                            \o [i \in 1..n |-> createFromMetadataGenerator(fns[i])]
             r == combineChannelCredentials(arguments)
         IN creds' = [creds EXCEPT !.c = IF r.value.kind = "error" THEN @ ELSE r.value,
                        !.last = Composition("combineChannelCredentials",
                                             arguments, r.value, r.log)]
  /\ UNCHANGED <<callVars, ctor, ready, svc, chan>>

\* The application combines n call credentials.
CallCombineCallCredentials ==
  /\ creds.pc = "have"
  /\ \E n \in 0..MaxCreds :
       \E fns \in [1..n -> MetadataGenerators] :
         LET arguments == [i \in 1..n |-> createFromMetadataGenerator(fns[i])]
             r == combineCallCredentials(arguments)
         IN creds' = [creds EXCEPT !.k = IF r.value.kind = "call" THEN r.value ELSE @,
                        !.last = Composition("combineCallCredentials",
                                             arguments, r.value, r.log)]
  /\ UNCHANGED <<callVars, ctor, ready, svc, chan>>

CredNext ==
  \/ CreateCredentials
  \/ CallComposeCall
  \/ CallComposeChannel
  \/ CallCombineChannelCredentials
  \/ CallCombineCallCredentials

CredSpec == Init /\ [][CredNext]_vars

\* C23: composeChannel(c, k) fails with an invalid-argument error, and yields
\* no credential, exactly when c or k is absent or c is not composable (the
\* insecure credential is not); otherwise it yields a channel credential.
C23_ComposeChannelChecked ==
  (creds.pc = "have" /\ creds.last.op = "composeChannel") =>
    LET c == creds.last.arguments[1]
        k == creds.last.arguments[2]
        r == creds.last.result
    IN /\ (c.kind = "absent" \/ k.kind = "absent" \/ ~c.composable)
            <=> r.kind = "error"
       /\ r.kind \in {"error", "channel"}
       /\ (c.kind = "channel" /\ c.base = "insecure") => r.kind = "error"

\* composeChannel was refused on the insecure credential with a call credential.
C23_Witness ==
  /\ creds.pc = "have"
  /\ creds.last.op = "composeChannel"
  /\ creds.last.arguments[1].base = "insecure"
  /\ creds.last.arguments[2].kind = "call"
  /\ creds.last.result.kind = "error"

\* C24: the insecure credential and every channel credential built by
\* composeChannel are non-composable, no channel credential is built by more
\* than one composeChannel, and composeChannel on a composite fails.
C24_CompositeNotComposable ==
  creds.pc = "have" =>
    /\ creds.c.kind = "channel"
    /\ (creds.c.base = "insecure" \/ creds.c.depth >= 1) => ~creds.c.composable
    /\ creds.c.depth <= 1
    /\ (creds.last.result.kind = "channel" /\ creds.last.result.depth >= 1)
         => ~creds.last.result.composable
    /\ (creds.last.op = "composeChannel"
          /\ creds.last.arguments[1].depth >= 1)
         => creds.last.result.kind = "error"

\* A second composeChannel on a composite was refused.
C24_Witness ==
  /\ creds.pc = "have"
  /\ creds.last.op = "composeChannel"
  /\ creds.last.arguments[1].depth = 1
  /\ creds.last.arguments[2].kind = "call"
  /\ creds.last.result.kind = "error"

\* The call credentials of the arguments from position i on, in order.
RECURSIVE CallsOf(_, _)
CallsOf(arguments, i) ==
  IF i > Len(arguments) THEN <<>>
  ELSE arguments[i].calls \o CallsOf(arguments, i + 1)

\* C25: combineChannelCredentials(c, k1, ..., kn) with a composable c and
\* n >= 1 yields one channel credential carrying k1..kn in order, and makes
\* no compose call on the result of an earlier composeChannel.
C25_CombineReduces ==
  (creds.pc = "have" /\ creds.last.op = "combineChannelCredentials"
     /\ Len(creds.last.arguments) >= 2
     /\ creds.last.arguments[1].composable) =>
    /\ creds.last.result.kind = "channel"
    /\ creds.last.result.calls = CallsOf(creds.last.arguments, 2)
    /\ \A i \in DOMAIN creds.last.log : creds.last.log[i].on.depth = 0

\* ------------------------------------------- metadata generator plugins
\* The service URLs the core hands to a plugin.
ServiceUrls == {"https://a/S", "https://b/S", "https://c/T"}

\* What a metadata generator passes as error: null, or an Error with a
\* message and, optionally, a 'code' property of its own.
NoError == [present |-> FALSE, hasCode |-> FALSE, code |-> "undefined",
            message |-> "undefined"]
GeneratorErrors ==
  {NoError}
    \cup [present : {TRUE}, hasCode : {FALSE}, code : {"undefined"},
          message : {"no token", "refused"}]
    \cup [present : {TRUE}, hasCode : {TRUE},
          code : {"UNAUTHENTICATED", "UNAVAILABLE", "INTERNAL"},
          message : {"no token", "refused"}]

\* new Metadata() followed by add(key, value) calls, as the list of its
\* entries; "undefined" stands for an argument that was not passed.
Authorization(header) == << <<"authorization", header>> >>
GeneratedMetadata ==
  {"undefined", <<>>, Authorization("Bearer t"),
   << <<"x-key", "v1">>, <<"x-key", "v2">> >>}
AuthorizationHeaders == {"Bearer t", "Bearer u"}

\* Metadata.prototype._getCoreRepresentation: every key with the list of its
\* values.
_getCoreRepresentation(metadata) ==
  [k \in {metadata[i][1] : i \in DOMAIN metadata} |->
     LET at == SelectSeq(metadata, LAMBDA e : e[1] = k) IN
     [i \in DOMAIN at |-> at[i][2]]]

\* The function createFromMetadataGenerator hands to its generator: the
\* invocations of the plugin's callback it makes, or the exception it throws
\* on reading a property of undefined.
generatorCallback(error, metadata) ==
  LET code == IF error.present /\ error.hasCode THEN error.code ELSE OK
      message == IF error.present THEN error.message ELSE "" IN
  IF metadata = "undefined"
    THEN [thrown |-> "TypeError", calls |-> <<>>]
    ELSE [thrown |-> "none",
          calls |-> << [code |-> code, message |-> message,
                        metadata |-> _getCoreRepresentation(metadata)] >>]

Generated(service_url, google, error, metadata, result) ==
  [pc |-> "generated", service_url |-> service_url, google |-> google,
   error |-> error, metadata |-> metadata, thrown |-> result.thrown,
   calls |-> result.calls]

\* The core calls the plugin made by createFromMetadataGenerator, which calls
\* the metadata generator: the application's, or the one that
\* createFromGoogleCredential makes.
CallPlugin ==
  /\ creds.pc = "idle"
  /\ \E service_url \in ServiceUrls, google \in BOOLEAN :
       creds' = [pc |-> "generating", service_url |-> service_url,
                 google |-> google]
  /\ UNCHANGED <<callVars, ctor, ready, svc, chan>>

\* The application's generator calls back with (error, metadata).
GeneratorCallsBack ==
  /\ creds.pc = "generating"
  /\ ~creds.google
  /\ \E error \in GeneratorErrors, metadata \in GeneratedMetadata :
       creds' = Generated(creds.service_url, FALSE, error, metadata,
                          generatorCallback(error, metadata))
  /\ UNCHANGED <<callVars, ctor, ready, svc, chan>>

\* createFromGoogleCredential's generator: getRequestMetadata calls back with
\* (err, header); on err the generator's callback gets the error alone, and
\* otherwise a Metadata with the authorization header.
GoogleCredentialCallsBack ==
  /\ creds.pc = "generating"
  /\ creds.google
  /\ \E err \in GeneratorErrors, header \in AuthorizationHeaders :
       LET metadata == IF err.present THEN "undefined"
                       ELSE Authorization(header) IN
       creds' = Generated(creds.service_url, TRUE, err, metadata,
                          generatorCallback(err, metadata))
  /\ UNCHANGED <<callVars, ctor, ready, svc, chan>>

PluginNext ==
  \/ CallPlugin
  \/ GeneratorCallsBack
  \/ GoogleCredentialCallsBack

PluginSpec == Init /\ [][PluginNext]_vars

\* C36: when the metadata generator reports an error, the plugin's callback
\* is invoked exactly once, with a status code other than OK, which is the
\* error's own code when it has one, and with the error's message, also when
\* the generator passes no metadata with the error.
C36_GeneratorErrorReported ==
  (creds.pc = "generated" /\ creds.error.present) =>
    /\ creds.thrown = "none"
    /\ Len(creds.calls) = 1
    /\ creds.calls[1].code # OK
    /\ creds.error.hasCode => creds.calls[1].code = creds.error.code
    /\ creds.calls[1].message = creds.error.message

\* ---------------------------------------------------- waitForClientReady
MaxWatches == 3       \* connectivity watches registered by one waitForClientReady
MaxCallbacks == 3     \* invocations of the callback of one waitForClientReady

\* grpc.connectivityState
ConnectivityStates ==
  {"IDLE", "CONNECTING", "READY", "TRANSIENT_FAILURE", "FATAL_FAILURE"}

\* checkState(err) on a channel in state new_state: the callback invocations
\* it makes, and the watch it registers when the channel is neither READY nor
\* in FATAL_FAILURE.
checkState(err, new_state, r) ==
  LET afterErr == IF err THEN Append(r.callbacks, "deadline") ELSE r.callbacks IN
  IF new_state = "READY"
    THEN [r EXCEPT !.pc = "quiet", !.state = new_state,
                   !.callbacks = Append(afterErr, "ok")]
  ELSE IF new_state = "FATAL_FAILURE"
    THEN [r EXCEPT !.pc = "quiet", !.state = new_state,
                   !.callbacks = Append(afterErr, "fatal")]
  ELSE [r EXCEPT !.pc = "watching", !.state = new_state,
                 !.callbacks = afterErr,
                 !.last_state = new_state,
                 !.watches = @ + 1]

\* waitForClientReady(client, deadline, callback): checkState()
waitForClientReady ==
  /\ ready.pc = "idle"
  /\ \E s \in ConnectivityStates :
       ready' = checkState(FALSE, s,
                           [pc |-> "idle", state |-> s, last_state |-> s,
                            expired |-> FALSE, callbacks |-> <<>>, watches |-> 0])
  /\ UNCHANGED <<callVars, ctor, creds, svc, chan>>

\* The channel changes its connectivity state; FATAL_FAILURE is final.
ChannelStateChange ==
  /\ ready.pc \in {"watching", "quiet"}
  /\ ready.state # "FATAL_FAILURE"
  /\ \E s \in ConnectivityStates \ {ready.state} :
       ready' = [ready EXCEPT !.state = s]
  /\ UNCHANGED <<callVars, ctor, creds, svc, chan>>

\* The registered watch completes because the channel's state differs from
\* last_state: checkState is called without an error.
WatchStateChanged ==
  /\ ready.pc = "watching"
  /\ ready.state # ready.last_state
  /\ ready.watches < MaxWatches
  /\ Len(ready.callbacks) < MaxCallbacks - 1
  /\ ready' = checkState(FALSE, ready.state, ready)
  /\ UNCHANGED <<callVars, ctor, creds, svc, chan>>

\* The registered watch completes because the deadline has passed while the
\* state was still last_state: checkState is called with an error.
WatchDeadline ==
  /\ ready.pc = "watching"
  /\ ready.state = ready.last_state
  /\ ready.watches < MaxWatches
  /\ Len(ready.callbacks) < MaxCallbacks - 1
  /\ ready' = checkState(TRUE, ready.state, [ready EXCEPT !.expired = TRUE])
  /\ UNCHANGED <<callVars, ctor, creds, svc, chan>>

ReadyNext ==
  \/ waitForClientReady
  \/ ChannelStateChange
  \/ WatchStateChanged
  \/ WatchDeadline

ReadySpec == Init /\ [][ReadyNext]_vars

\* C26: waitForClientReady invokes its callback at most once, it has invoked
\* it exactly when it has stopped watching the channel, without an error for
\* a channel seen READY before the deadline and with an error for
\* FATAL_FAILURE or an expired deadline.
C26_CallbackExactlyOnce ==
  ready.pc # "idle" =>
    /\ Len(ready.callbacks) <= 1
    /\ ready.pc = "quiet" <=> Len(ready.callbacks) = 1
    /\ (ready.callbacks = <<"ok">>) => ~ready.expired

\* C37: waitForClientReady holds a registered connectivity watch only while
\* it has not invoked its callback and its deadline has not passed, so that
\* it registers finitely many watches and none after the callback.
C37_NoWatchAfterCallback ==
  ready.pc = "watching" => (ready.callbacks = <<>> /\ ~ready.expired)

\* ------------------------------------------------------ the test service
MaxRequests == 2      \* inbound requests of one streaming call
MaxParams == 2        \* entries of one request's response_parameters

\* The sizes a request asks for, and the sizes of inbound payload bodies.
ResponseSizes == {0, 2}
PayloadSizes == {0, 2, 3}

\* The values call.metadata.get(key) returns: none, one, or several.
EchoValues == { <<>>, <<"a">>, <<"b", "a">> }

ECHO_INITIAL_KEY == "x-grpc-test-echo-initial"
ECHO_TRAILING_KEY == "x-grpc-test-echo-trailing-bin"

\* The metadata of an incoming call, as far as the service looks at it.
CallMetadata ==
  [{ECHO_INITIAL_KEY, ECHO_TRAILING_KEY} -> EchoValues]

ResponseParameters ==
  UNION {[1..n -> [size : ResponseSizes]] : n \in 0..MaxParams}

\* zeroBuffer(size): a buffer of size zero bytes
zeroBuffer(size) == [i \in 1..size |-> 0]

\* What the server has sent on the call: initial metadata ("metadata", with
\* the echoed value), a response ("message", with its payload body or its
\* aggregated_payload_size), and the status with its trailer ("status").
Sent(t, value, body, n) == [t |-> t, value |-> value, body |-> body, n |-> n]

echoHeader_Never(metadata) == <<>>

\* echoHeader(call): call.sendMetadata with the first value of the key
echoHeader(metadata) ==
  LET echo_initial == metadata[ECHO_INITIAL_KEY] IN
  IF Len(echo_initial) > 0
    THEN << Sent("metadata", echo_initial[1], <<>>, 0) >>
    ELSE <<>>

\* getEchoTrailer(call): the trailer, with the first value of the key if any
getEchoTrailer(metadata) ==
  LET echo_trailer == metadata[ECHO_TRAILING_KEY] IN
  IF Len(echo_trailer) > 0 THEN echo_trailer[1] ELSE "none"

\* callback(null, value, trailer) and call.end(trailer) send the status
Status(metadata) == Sent("status", getEchoTrailer(metadata), <<>>, 0)

WriteEach_First(response_parameters) ==
  [i \in 1..(IF Len(response_parameters) > 0 THEN 1 ELSE 0) |->
     Sent("message", "payload", zeroBuffer(response_parameters[i].size), 0)]

WriteEach_Reversed(response_parameters) ==
  [i \in 1..Len(response_parameters) |->
     Sent("message", "payload",
          zeroBuffer(response_parameters[Len(response_parameters) + 1 - i].size), 0)]

\* _.each(response_parameters, ...): one call.write per entry, in order
WriteEach(response_parameters) ==
  [i \in 1..Len(response_parameters) |->
     Sent("message", "payload", zeroBuffer(response_parameters[i].size), 0)]

Aggregate_Last(aggregate_size, value) == Len(value.payload.body)

\* aggregate_size += value.payload.body.length
Aggregate(aggregate_size, value) == aggregate_size + Len(value.payload.body)

\* The state of the call a handler has been given.
Handling(handler, pc, metadata, request, out) ==
  [pc |-> pc, handler |-> handler, metadata |-> metadata, request |-> request,
   inbound |-> <<>>, aggregate_size |-> 0, out |-> out]

NoRequest == [response_size |-> 0, response_parameters |-> <<>>]

\* handleEmpty(call, callback)
handleEmpty ==
  /\ svc.pc = "idle"
  /\ \E metadata \in CallMetadata :
       svc' = Handling("handleEmpty", "done", metadata, NoRequest,
                       echoHeader(metadata)
                         \o << Sent("message", "empty", <<>>, 0), Status(metadata) >>)
  /\ UNCHANGED <<callVars, ctor, creds, ready, chan>>

\* handleUnary(call, callback)
handleUnary ==
  /\ svc.pc = "idle"
  /\ \E metadata \in CallMetadata, response_size \in ResponseSizes :
       svc' = Handling("handleUnary", "done", metadata,
                       [NoRequest EXCEPT !.response_size = response_size],
                       echoHeader(metadata)
                         \o << Sent("message", "payload", zeroBuffer(response_size), 0),
                               Status(metadata) >>)
  /\ UNCHANGED <<callVars, ctor, creds, ready, chan>>

\* handleStreamingOutput(call)
handleStreamingOutput ==
  /\ svc.pc = "idle"
  /\ \E metadata \in CallMetadata, response_parameters \in ResponseParameters :
       svc' = Handling("handleStreamingOutput", "done", metadata,
                       [NoRequest EXCEPT !.response_parameters = response_parameters],
                       echoHeader(metadata) \o WriteEach(response_parameters)
                         \o << Status(metadata) >>)
  /\ UNCHANGED <<callVars, ctor, creds, ready, chan>>

\* handleStreamingInput(call, callback): registers the two listeners
handleStreamingInput ==
  /\ svc.pc = "idle"
  /\ \E metadata \in CallMetadata :
       svc' = Handling("handleStreamingInput", "open", metadata, NoRequest,
                       echoHeader(metadata))
  /\ UNCHANGED <<callVars, ctor, creds, ready, chan>>

\* The 'data' listener of handleStreamingInput
StreamingInputData ==
  /\ svc.pc = "open"
  /\ svc.handler = "handleStreamingInput"
  /\ Len(svc.inbound) < MaxRequests
  /\ \E size \in PayloadSizes :
       LET value == [payload |-> [body |-> zeroBuffer(size)]] IN
       svc' = [svc EXCEPT !.inbound = Append(@, value),
                 !.aggregate_size = Aggregate(@, value)]
  /\ UNCHANGED <<callVars, ctor, creds, ready, chan>>

\* The 'end' listener of handleStreamingInput
StreamingInputEnd ==
  /\ svc.pc = "open"
  /\ svc.handler = "handleStreamingInput"
  /\ svc' = [svc EXCEPT !.pc = "done",
               !.out = @ \o << Sent("message", "aggregated", <<>>, svc.aggregate_size),
                               Status(svc.metadata) >>]
  /\ UNCHANGED <<callVars, ctor, creds, ready, chan>>

\* handleFullDuplex(call): registers the two listeners
handleFullDuplex ==
  /\ svc.pc = "idle"
  /\ \E metadata \in CallMetadata :
       svc' = Handling("handleFullDuplex", "open", metadata, NoRequest,
                       echoHeader(metadata))
  /\ UNCHANGED <<callVars, ctor, creds, ready, chan>>

\* The 'data' listener of handleFullDuplex
FullDuplexData ==
  /\ svc.pc = "open"
  /\ svc.handler = "handleFullDuplex"
  /\ Len(svc.inbound) < MaxRequests
  /\ \E response_parameters \in ResponseParameters :
       LET value == [response_parameters |-> response_parameters] IN
       svc' = [svc EXCEPT !.inbound = Append(@, value),
                 !.out = @ \o WriteEach(value.response_parameters)]
  /\ UNCHANGED <<callVars, ctor, creds, ready, chan>>

\* The 'end' listener of handleFullDuplex
FullDuplexEnd ==
  /\ svc.pc = "open"
  /\ svc.handler = "handleFullDuplex"
  /\ svc' = [svc EXCEPT !.pc = "done", !.out = @ \o << Status(svc.metadata) >>]
  /\ UNCHANGED <<callVars, ctor, creds, ready, chan>>

ServiceNext ==
  \/ handleEmpty
  \/ handleUnary
  \/ handleStreamingOutput
  \/ handleStreamingInput
  \/ StreamingInputData
  \/ StreamingInputEnd
  \/ handleFullDuplex
  \/ FullDuplexData
  \/ FullDuplexEnd

ServiceSpec == Init /\ [][ServiceNext]_vars

\* The responses and the statuses the server has sent, in order.
Responses == SelectSeq(svc.out, LAMBDA e : e.t = "message")
Statuses == SelectSeq(svc.out, LAMBDA e : e.t = "status")

\* The sum of the payload body lengths of the requests from position i on.
RECURSIVE PayloadSum(_, _)
PayloadSum(requests, i) ==
  IF i > Len(requests) THEN 0
  ELSE Len(requests[i].payload.body) + PayloadSum(requests, i + 1)

\* C27: streamingInputCall sends nothing but initial metadata while its input
\* is open, and when the input has ended it has sent exactly one response,
\* whose aggregated_payload_size is the sum of the payload body lengths of
\* the inbound requests, followed by the status.
C27_AggregatedPayloadSize ==
  (svc.pc # "idle" /\ svc.handler = "handleStreamingInput") =>
    /\ svc.pc = "open" => (Responses = <<>> /\ Statuses = <<>>)
    /\ svc.pc = "done" =>
         /\ Len(Responses) = 1
         /\ Responses[1].value = "aggregated"
         /\ Responses[1].n = PayloadSum(svc.inbound, 1)
         /\ Len(Statuses) = 1
         /\ svc.out[Len(svc.out)].t = "status"

\* Two requests of 2 and 3 bytes were answered with 5.
C27_Witness ==
  /\ svc.pc = "done"
  /\ svc.handler = "handleStreamingInput"
  /\ Len(svc.inbound) = 2
  /\ Len(svc.inbound[1].payload.body) = 2
  /\ Len(svc.inbound[2].payload.body) = 3
  /\ Responses[1].n = 5

\* C28: streamingOutputCall writes one response per entry of the request's
\* response_parameters, the i-th with a body of the i-th size, and then ends
\* the stream.
C28_OneResponsePerParameter ==
  (svc.pc # "idle" /\ svc.handler = "handleStreamingOutput") =>
    /\ Len(Responses) = Len(svc.request.response_parameters)
    /\ \A i \in DOMAIN Responses :
         Len(Responses[i].body) = svc.request.response_parameters[i].size
    /\ Len(Statuses) = 1
    /\ svc.out[Len(svc.out)].t = "status"

\* A request for a 2-byte and then an empty payload was served.
C28_Witness ==
  /\ svc.pc = "done"
  /\ svc.handler = "handleStreamingOutput"
  /\ Len(svc.request.response_parameters) = 2
  /\ Len(Responses[1].body) = 2
  /\ Len(Responses[2].body) = 0

\* The sizes asked for by the requests from position i on, in order.
RECURSIVE SizesAsked(_, _)
SizesAsked(requests, i) ==
  IF i > Len(requests) THEN <<>>
  ELSE [j \in DOMAIN requests[i].response_parameters |->
          requests[i].response_parameters[j].size]
       \o SizesAsked(requests, i + 1)

\* C29: at every moment fullDuplexCall has sent, for the inbound requests it
\* has handled and in their order, one response per response_parameters entry
\* of the requested size; it has ended its output exactly when its input has
\* ended, and the status is the last thing it sends.
C29_FullDuplexEcho ==
  (svc.pc # "idle" /\ svc.handler = "handleFullDuplex") =>
    /\ Len(Responses) = Len(SizesAsked(svc.inbound, 1))
    /\ \A i \in DOMAIN Responses :
         Len(Responses[i].body) = SizesAsked(svc.inbound, 1)[i]
    /\ svc.pc = "open" <=> Statuses = <<>>
    /\ svc.pc = "done" =>
         (Len(Statuses) = 1 /\ svc.out[Len(svc.out)].t = "status")

\* Two inbound requests, the first asking for sizes 0 and 2, were served.
C29_Witness ==
  /\ svc.pc = "done"
  /\ svc.handler = "handleFullDuplex"
  /\ Len(svc.inbound) = 2
  /\ Len(svc.inbound[1].response_parameters) = 2
  /\ Len(svc.inbound[2].response_parameters) = 1
  /\ Len(Responses) = 3
  /\ Len(Responses[1].body) = 0
  /\ Len(Responses[2].body) = 2

\* C30: in every handler, a request carrying x-grpc-test-echo-initial makes
\* the server send initial metadata with that value (the first, when the key
\* has several) before anything else; one carrying
\* x-grpc-test-echo-trailing-bin gets that value in the trailer; for an
\* absent key nothing is echoed.
C30_MetadataEcho ==
  svc.pc # "idle" =>
    LET initial == svc.metadata["x-grpc-test-echo-initial"]
        trailing == svc.metadata["x-grpc-test-echo-trailing-bin"]
        echoed == {i \in DOMAIN svc.out : svc.out[i].t = "metadata"}
    IN /\ svc.handler \in {"handleEmpty", "handleUnary", "handleStreamingInput",
                           "handleStreamingOutput", "handleFullDuplex"}
       /\ initial = <<>> => echoed = {}
       /\ initial # <<>> => (echoed = {1} /\ svc.out[1].value = initial[1])
       /\ \A i \in DOMAIN svc.out :
            svc.out[i].t = "status" =>
              svc.out[i].value = (IF trailing = <<>> THEN "none" ELSE trailing[1])

\* A full-duplex call with both keys was served with responses.
C30_Witness ==
  /\ svc.pc = "done"
  /\ svc.handler = "handleFullDuplex"
  /\ svc.metadata["x-grpc-test-echo-initial"] = <<"a">>
  /\ svc.metadata["x-grpc-test-echo-trailing-bin"] = <<"b", "a">>
  /\ Len(Responses) >= 1
  /\ svc.out[1].t = "metadata"

\* ------------------------------------- ping_pong against the test service
payload_sizes == <<27182, 8, 1828, 45904>>
response_sizes == <<31415, 9, 2653, 58979>>

\* The request pingPong writes while its index has the given value.
PingPongRequest(index) ==
  [response_type |-> "COMPRESSABLE",
   response_parameters |-> << [size |-> response_sizes[index + 1]] >>,
   payload |-> [body |-> zeroBuffer(payload_sizes[index + 1])]]

\* index: incremented by each run of the 'data' listener whose assertions held.
PingPongIndex == Count("data") - Count("assert")

\* pingPong(client, done): opens the call, writes the first request and
\* attaches the 'status' and 'data' listeners (which starts the reading).
pingPong ==
  /\ shape = "none"
  /\ shape' = "bidi"
  /\ submitted' = BidiOpenBatches
  /\ pending' = {1, 2}
  /\ written' = written + 1
  /\ wWriting' = TRUE
  /\ SubmitSend(WriteBatch(written + 1))
  /\ started' = TRUE
  /\ UNCHANGED <<cq, sendCq, events, cancels, wq, wEnding, wFinished>>
  /\ UNCHANGED <<rbuf, finished, reading, nodeReading, rEnded, endEmitted>>
  /\ UNCHANGED transportVars
  /\ UNCHANGED auxVars

\* The server is given the call, which carries no echo metadata.
PingPongServerCall ==
  /\ shape = "bidi"
  /\ handleFullDuplex
  /\ svc'.metadata = [k \in {ECHO_INITIAL_KEY, ECHO_TRAILING_KEY} |-> <<>>]

\* The 'data' listener of handleFullDuplex gets the next request the client
\* has handed to the transport; its responses follow the initial metadata
\* to the client.
PingPongServerData ==
  /\ svc.pc = "open"
  /\ svc.handler = "handleFullDuplex"
  /\ finalStatus = NoStatus
  /\ Len(svc.inbound) < WritesStarted
  /\ LET value == PingPongRequest(Len(svc.inbound))
         responses == WriteEach(value.response_parameters) IN
     /\ svc' = [svc EXCEPT !.inbound = Append(@, value),
                  !.out = @ \o responses]
     /\ wire' = wire \o [j \in DOMAIN responses |-> [id |-> srvSent + j, ok |-> TRUE]]
     /\ srvSent' = srvSent + Len(responses)
  /\ srvInitMd' = TRUE
  /\ UNCHANGED <<shape, batchVars, finalStatus, events, cancels>>
  /\ UNCHANGED <<readVars, writeVars>>
  /\ UNCHANGED <<ctor, creds, ready, chan>>

\* The 'end' listener of handleFullDuplex runs once the client has
\* half-closed and every request has been handled: the status reaches the
\* client.
PingPongServerEnd ==
  /\ svc.pc = "open"
  /\ svc.handler = "handleFullDuplex"
  /\ finalStatus = NoStatus
  /\ \E i \in DOMAIN sent : sent[i].kind = "close"
  /\ Len(svc.inbound) = WritesStarted
  /\ svc' = [svc EXCEPT !.pc = "done", !.out = @ \o << Status(svc.metadata) >>]
  /\ finalStatus' = [code |-> OK, details |-> "", metadata |-> "core_trailer"]
  /\ UNCHANGED <<shape, batchVars, srvInitMd, wire, srvSent, events, cancels>>
  /\ UNCHANGED <<readVars, writeVars>>
  /\ UNCHANGED <<ctor, creds, ready, chan>>

\* The 'data' listener of pingPong that ends after the third response.
PingPongOnData_EndsEarly ==
  /\ started
  /\ rbuf # <<>>
  /\ ~NodeReadDue
  /\ rbuf' = Tail(rbuf)
  /\ LET index == PingPongIndex
         body == SelectSeq(svc.out, LAMBDA e : e.t = "message")[Head(rbuf)].body
         data == Ev("data", "-", "-", "-", Head(rbuf)) IN
     IF index >= Len(response_sizes) \/ Len(body) # response_sizes[index + 1]
       THEN /\ events' = events \o << data, Ev("assert", "-", "-", "-", Head(rbuf)) >>
            /\ UNCHANGED <<sent, sendPending, writeVars>>
       ELSE /\ events' = Append(events, data)
            /\ IF index + 1 = 3
                 THEN /\ wEnding' = TRUE
                      /\ IF ~wWriting /\ wq = 0
                           THEN wFinished' = TRUE /\ SubmitSend(CloseBatch)
                           ELSE UNCHANGED <<wFinished, sent, sendPending>>
                      /\ UNCHANGED <<wq, wWriting, written>>
                 ELSE /\ written' = written + 1
                      /\ IF wWriting
                           THEN wq' = wq + 1
                                  /\ UNCHANGED <<wWriting, sent, sendPending>>
                           ELSE wWriting' = TRUE
                                  /\ SubmitSend(WriteBatch(written + 1))
                                  /\ wq' = wq
                      /\ UNCHANGED <<wEnding, wFinished>>
  /\ UNCHANGED <<shape, recvBatchVars, sendCq, cancels, finished, reading,
                 nodeReading, rEnded, endEmitted, started>>
  /\ UNCHANGED transportVars
  /\ UNCHANGED auxVars

\* Node hands the oldest buffered response to the 'data' listener of
\* pingPong: the assertions on the response, index += 1, and call.end() after
\* the fourth response or call.write of the next request.
PingPongOnData ==
  /\ started
  /\ rbuf # <<>>
  /\ ~NodeReadDue
  /\ rbuf' = Tail(rbuf)
  /\ LET index == PingPongIndex
         body == SelectSeq(svc.out, LAMBDA e : e.t = "message")[Head(rbuf)].body
         data == Ev("data", "-", "-", "-", Head(rbuf)) IN
     IF index >= Len(response_sizes) \/ Len(body) # response_sizes[index + 1]
       THEN /\ events' = events \o << data, Ev("assert", "-", "-", "-", Head(rbuf)) >>
            /\ UNCHANGED <<sent, sendPending, writeVars>>
       ELSE /\ events' = Append(events, data)
            /\ IF index + 1 = 4
                 THEN /\ wEnding' = TRUE
                      /\ IF ~wWriting /\ wq = 0
                           THEN wFinished' = TRUE /\ SubmitSend(CloseBatch)
                           ELSE UNCHANGED <<wFinished, sent, sendPending>>
                      /\ UNCHANGED <<wq, wWriting, written>>
                 ELSE /\ written' = written + 1
                      /\ IF wWriting
                           THEN wq' = wq + 1
                                  /\ UNCHANGED <<wWriting, sent, sendPending>>
                           ELSE wWriting' = TRUE
                                  /\ SubmitSend(WriteBatch(written + 1))
                                  /\ wq' = wq
                      /\ UNCHANGED <<wEnding, wFinished>>
  /\ UNCHANGED <<shape, recvBatchVars, sendCq, cancels, finished, reading,
                 nodeReading, rEnded, endEmitted, started>>
  /\ UNCHANGED transportVars
  /\ UNCHANGED auxVars

PingPongNext ==
  \/ pingPong
  \/ PingPongServerCall
  \/ PingPongServerData
  \/ PingPongServerEnd
  \/ TransportComplete
  \/ TransportCompleteSend
  \/ MetadataCallback
  \/ StatusCallback
  \/ _read
  \/ readCallback
  \/ PingPongOnData
  \/ EmitEnd
  \/ writeCallback
  \/ closeCallback

\* The event loop runs a handler whenever one is due, and the transport and
\* the server keep making progress.
PingPongSpec == Init /\ [][PingPongNext]_vars /\ WF_vars(PingPongNext)

\* The 'status' listener of pingPong has run.
PingPongDone == Count("status") >= 1

PingPongLockstep ==
  /\ written <= Count("data") + 1
  /\ Len(svc.inbound) <= Len(Responses) + 1
  /\ wEnding => Count("data") = 4
  /\ Count("data") <= 4
  /\ Count("assert") = 0
  /\ \A i \in DOMAIN events :
       events[i].type = "status" => events[i].code = OK
  /\ Len(Responses) = Len(svc.inbound)
  /\ \A k \in DOMAIN svc.inbound :
       /\ Len(svc.inbound[k].payload.body) = payload_sizes[k]
       /\ Len(Responses[k].body) = response_sizes[k]
  /\ PingPongDone =>
       /\ Count("data") = 4
       /\ written = 4
       /\ Len(svc.inbound) = 4
       /\ Len(Statuses) = 1

\* C31: in ping_pong against the test service the client has written at most
\* one request more than it has received responses and ends its write side
\* only after the fourth response; the server has received the payload sizes
\* and sent the response sizes of the two lists paired index by index; the
\* run reaches the 'status' listener, with status OK after exactly four round
\* trips.
C31_PingPong ==
  [](shape = "bidi" /\ svc.pc # "idle" => PingPongLockstep) /\ <>PingPongDone

\* The run has ended with OK after the fourth response of 58979 bytes.
C31_Witness ==
  /\ PingPongDone
  /\ Count("data") = 4
  /\ Len(svc.inbound) = 4
  /\ Len(Responses[4].body) = 58979
  /\ svc.pc = "done"

\* ----------------------------------------------------- the native Channel
MaxArgs == 2          \* own properties of the options object
MaxChannelCalls == 3  \* method calls on one Channel object

\* info[0], info[1], info[2] of Channel::New. A value of the options object
\* is an Int32, a String, or something else.
ArgValues == {"Int32", "String", "Other"}
ChannelArguments ==
  [host : {"string", "number"},
   credentials : {createInsecure, createSsl,
                  composeChannel(createSsl, createFromMetadataGenerator(1)),
                  createFromMetadataGenerator(1)},
   options : [type : {"undefined", "number"}, values : {<<>>}]
               \cup [type : {"object"},
                     values : UNION {[1..n -> ArgValues] : n \in 0..MaxArgs}]]

\* A channel of the core: made insecure or secure with the given arguments,
\* and the number of grpc_channel_destroy calls it has received.
CoreChannel(kind, args) == [kind |-> kind, args |-> args, destroyed |-> 0]

\* The channel_args the second creation call may receive: NULL for undefined
\* options; for an object, channel_args_ptr points to a block-scoped struct
\* whose lifetime has ended, so the core reads the arguments or anything.
PassedArgs(options) ==
  IF options.type = "undefined" THEN {"NULL"}
  ELSE {"args", "indeterminate"}

Rejected(info, message) ==
  [pc |-> "rejected", info |-> info, thrown |-> message, core |-> <<>>,
   wrapped_channel |-> 0, calls |-> <<>>, closes |-> 0]

Constructed(info, core) ==
  [pc |-> "constructed", info |-> info, thrown |-> "none", core |-> core,
   wrapped_channel |-> Len(core), calls |-> <<>>, closes |-> 0]

\* Channel::New(info): the type errors, the core channels created in order,
\* and the one the new object wraps (the last one created). A call without
\* new constructs with the same arguments.
ChannelNew(info, args) ==
  IF info.host # "string"
    THEN Rejected(info, "Channel expects a string, a credential and an object")
  ELSE IF info.credentials.kind # "channel"
    THEN Rejected(info, "Channel's second argument must be a ChannelCredentials")
  ELSE IF info.options.type = "object"
          /\ \E i \in DOMAIN info.options.values :
               info.options.values[i] = "Other"
    THEN Rejected(info, "Arg values must be strings")
  ELSE IF info.options.type \notin {"undefined", "object"}
    THEN Rejected(info, "Channel expects a string and an object")
  ELSE LET first == IF info.options.type = "undefined"
                      THEN << CoreChannel("insecure", "NULL") >>
                      ELSE <<>>
           \* GetWrappedCredentials() is NULL for insecure credentials
           second == IF info.credentials.base = "insecure"
                       THEN CoreChannel("insecure", args)
                       ELSE CoreChannel("secure", args) IN
       Constructed(info, first \o << second >>)

New ==
  /\ chan.pc = "idle"
  /\ \E info \in ChannelArguments :
       \E args \in PassedArgs(info.options) :
         chan' = ChannelNew(info, args)
  /\ UNCHANGED <<callVars, ctor, creds, ready, svc>>

\* grpc_channel_destroy(channel)
Destroy(core, channel) ==
  [core EXCEPT ![channel].destroyed = @ + 1]

\* A call into the core with the pointer the object holds: 0 is NULL.
CoreCall(fn, channel, core) ==
  [fn |-> fn, channel |-> channel,
   live |-> channel # 0 /\ core[channel].destroyed = 0]

\* close() that destroys and keeps the pointer.
Close_KeepPointer ==
  /\ chan.pc = "constructed"
  /\ chan.closes + Len(chan.calls) < MaxChannelCalls
  /\ chan' = IF chan.wrapped_channel # 0
               THEN [chan EXCEPT !.core = Destroy(@, chan.wrapped_channel),
                                 !.closes = @ + 1]
               ELSE [chan EXCEPT !.closes = @ + 1]
  /\ UNCHANGED <<callVars, ctor, creds, ready, svc>>

\* channel.close()
Close ==
  /\ chan.pc = "constructed"
  /\ chan.closes + Len(chan.calls) < MaxChannelCalls
  /\ chan' = IF chan.wrapped_channel # 0
               THEN [chan EXCEPT !.core = Destroy(@, chan.wrapped_channel),
                                 !.wrapped_channel = 0,
                                 !.closes = @ + 1]
               ELSE [chan EXCEPT !.closes = @ + 1]
  /\ UNCHANGED <<callVars, ctor, creds, ready, svc>>

\* channel.getTarget()
GetTarget ==
  /\ chan.pc = "constructed"
  /\ chan.closes + Len(chan.calls) < MaxChannelCalls
  /\ chan' = [chan EXCEPT !.calls =
                Append(@, CoreCall("grpc_channel_get_target",
                                   chan.wrapped_channel, chan.core))]
  /\ UNCHANGED <<callVars, ctor, creds, ready, svc>>

\* channel.getConnectivityState(try_to_connect)
GetConnectivityState ==
  /\ chan.pc = "constructed"
  /\ chan.closes + Len(chan.calls) < MaxChannelCalls
  /\ chan' = [chan EXCEPT !.calls =
                Append(@, CoreCall("grpc_channel_check_connectivity_state",
                                   chan.wrapped_channel, chan.core))]
  /\ UNCHANGED <<callVars, ctor, creds, ready, svc>>

\* channel.watchConnectivityState(last_state, deadline, callback): a type
\* error for arguments of the wrong types, the core call otherwise.
WatchConnectivityState ==
  /\ chan.pc = "constructed"
  /\ chan.closes + Len(chan.calls) < MaxChannelCalls
  /\ \E well_typed \in BOOLEAN :
       chan' = IF well_typed
                 THEN [chan EXCEPT !.calls =
                         Append(@, CoreCall("grpc_channel_watch_connectivity_state",
                                            chan.wrapped_channel, chan.core))]
                 ELSE [chan EXCEPT !.calls =
                         Append(@, [fn |-> "TypeError", channel |-> -1,
                                    live |-> TRUE])]
  /\ UNCHANGED <<callVars, ctor, creds, ready, svc>>

\* Channel::~Channel, when the object is collected.
Destructor ==
  /\ chan.pc = "constructed"
  /\ chan' = IF chan.wrapped_channel # 0
               THEN [chan EXCEPT !.pc = "collected",
                                 !.core = Destroy(@, chan.wrapped_channel)]
               ELSE [chan EXCEPT !.pc = "collected"]
  /\ UNCHANGED <<callVars, ctor, creds, ready, svc>>

ChannelNext ==
  \/ New
  \/ Close
  \/ GetTarget
  \/ GetConnectivityState
  \/ WatchConnectivityState
  \/ Destructor

ChannelSpec == Init /\ [][ChannelNext]_vars

\* C38: whatever close() calls precede the destruction of a Channel object,
\* no core channel receives grpc_channel_destroy more than once.
C38_DestroyedAtMostOnce ==
  chan.pc # "idle" =>
    \A i \in DOMAIN chan.core : chan.core[i].destroyed <= 1

\* A Channel closed twice and then collected, its core channel destroyed once.
C38_Witness ==
  /\ chan.pc = "collected"
  /\ chan.closes >= 2
  /\ chan.core[Len(chan.core)].destroyed = 1

\* C39: no call into the core made by getTarget, getConnectivityState or
\* watchConnectivityState carries a NULL or destroyed core channel, also
\* after close().
C39_NoDeadChannelToCore ==
  chan.pc # "idle" =>
    \A i \in DOMAIN chan.calls :
      chan.calls[i].fn # "TypeError" =>
        (chan.calls[i].channel # 0 /\ chan.calls[i].live)

\* C40: a Channel construction that succeeds has created exactly one core
\* channel, insecure when the credentials wrap no core credentials and secure
\* otherwise, for undefined options and for an options object; a construction
\* rejected with a type error has created none.
C40_OneCoreChannel ==
  /\ chan.pc = "rejected" => chan.core = <<>>
  /\ chan.pc \in {"constructed", "collected"} =>
       /\ Len(chan.core) = 1
       /\ chan.core[1].kind =
            (IF chan.info.credentials.base = "insecure"
               THEN "insecure" ELSE "secure")

====
